---- MODULE Spec2Model ----
(***************************************************************************)
(* The assistant's command pipeline (src/src/assistant/ai/assistant_core.py)*)
(* and the layered secret resolution it rests on                            *)
(* (src/src/assistant/config.py, src/azure/src/assistant/azure_keyvault.py).*)
(*                                                                         *)
(* Strings of the program whose characters matter (secret names, the       *)
(* environment-variable names derived from them, attribute names) are      *)
(* sequences of word tokens, so that upper(), lower(), replace("-", "_")   *)
(* and prefixing are computed and not assumed.  A language-model reply is  *)
(* a sequence of JSON tokens that json.loads either parses or rejects.     *)
(***************************************************************************)
EXTENDS Integers, Sequences, FiniteSets, TLC

VARIABLES
    environ,            \* os.environ: variable name -> value (absent: not set)
    vault,              \* the remote Key Vault: secret name -> value
    vaultUp,            \* whether the remote vault answers calls
    use_key_vault,      \* Settings.use_key_vault
    azure_key_vault_url,\* Settings.azure_key_vault_url
    key_vault_secret_prefix, \* Settings.key_vault_secret_prefix
    settings_initialized,    \* SecureSettings._initialized
    key_vault_client,   \* SecureSettings._key_vault_client (None or the object)
    client,             \* AzureKeyVaultClient.client (None or a SecretClient)
    secrets_cache,      \* AzureKeyVaultClient._secrets_cache
    last,               \* observation of the last resolver operation
    openai_initialized, \* AIAssistant._openai_initialized
    asana_initialized,  \* AsanaClient._initialized
    github_initialized, \* GitHubClient._initialized
    outcome,            \* observation of the last process_command call
    remote,             \* the records the sync requests left at the services
    response,           \* observation of the last sync request
    adapter_client,     \* AsanaClient.client and GitHubClient.client
    first_use,          \* each concurrent first use: where it stands
    pending,            \* each concurrent resolver call: where it stands
    in_flight           \* each concurrent sync: where it stands

resolverVars == <<environ, vault, vaultUp, use_key_vault, azure_key_vault_url,
                  key_vault_secret_prefix, settings_initialized,
                  key_vault_client, client, secrets_cache, last>>
assistantVars == <<openai_initialized, asana_initialized, github_initialized,
                   adapter_client, outcome>>
syncVars == <<remote, response>>
concurrentVars == <<first_use, pending, in_flight>>
vars == <<resolverVars, assistantVars, syncVars, concurrentVars>>

----------------------------------------------------------------------------
(* Python values *)

None == "None"

\* bool(v) of an Optional[str]: None and the empty string are falsy.
Truthy(v) == v # None /\ v # ""

\* `a or b`
PyOr(a, b) == IF Truthy(a) THEN a ELSE b

EmptyMap == [x \in {} |-> None]

\* d[k] = v on a dict
DictSet(d, k, v) == [x \in (DOMAIN d) \cup {k} |-> IF x = k THEN v ELSE d[x]]

\* d.pop(k, None)
DictPop(d, k) == [x \in (DOMAIN d) \ {k} |-> d[x]]

\* d.get(k) / os.getenv(k)
DictGet(d, k) == IF k \in DOMAIN d THEN d[k] ELSE None

----------------------------------------------------------------------------
(* Names: sequences of word tokens *)

\* str.upper() on one token
UpperTok(t) ==
    CASE t = "asana"  -> "ASANA"
      [] t = "access" -> "ACCESS"
      [] t = "token"  -> "TOKEN"
      [] t = "github" -> "GITHUB"
      [] t = "openai" -> "OPENAI"
      [] t = "api"    -> "API"
      [] t = "key"    -> "KEY"
      [] t = "model"  -> "MODEL"
      [] t = "dev"    -> "DEV"
      [] t = "alt"    -> "ALT"
      [] OTHER        -> t

\* str.lower() on one token
LowerTok(t) ==
    CASE t = "ASANA"  -> "asana"
      [] t = "ACCESS" -> "access"
      [] t = "TOKEN"  -> "token"
      [] t = "GITHUB" -> "github"
      [] t = "OPENAI" -> "openai"
      [] t = "API"    -> "api"
      [] t = "KEY"    -> "key"
      [] t = "MODEL"  -> "model"
      [] t = "DEV"    -> "dev"
      [] t = "ALT"    -> "alt"
      [] OTHER        -> t

Upper(s) == [i \in DOMAIN s |-> UpperTok(s[i])]
Lower(s) == [i \in DOMAIN s |-> LowerTok(s[i])]

\* s.replace("-", "_")
ReplaceDash(s) == [i \in DOMAIN s |-> IF s[i] = "-" THEN "_" ELSE s[i]]

\* secret_name.upper().replace("-", "_")
EnvVarOf(name) == ReplaceDash(Upper(name))

AsanaAccessToken == <<"asana", "-", "access", "-", "token">>
GithubToken      == <<"github", "-", "token">>
OpenaiApiKey     == <<"openai", "-", "api", "-", "key">>
OpenaiModel      == <<"openai", "-", "model">>

ASANA_ACCESS_TOKEN == <<"ASANA", "_", "ACCESS", "_", "TOKEN">>
GITHUB_TOKEN       == <<"GITHUB", "_", "TOKEN">>
OPENAI_API_KEY     == <<"OPENAI", "_", "API", "_", "KEY">>
ALT                == <<"ALT">>
DEV_GITHUB_TOKEN   == <<"DEV", "_", "GITHUB", "_", "TOKEN">>

\* The prefixes a deployment may configure: none, or "dev-".
NoPrefix  == <<>>
DevPrefix == <<"dev", "-">>

\* Settings: the class defaults of the fields get_secret can reach through
\* getattr(self.base_settings, env_var.lower(), None).
SettingsDefaults ==
    (<<"asana", "_", "access", "_", "token">> :> None) @@
    (<<"github", "_", "token">> :> None) @@
    (<<"openai", "_", "api", "_", "key">> :> None) @@
    (<<"openai", "_", "model">> :> "gpt-4")

\* getattr(self.base_settings, attr, None)
SettingsAttr(attr) == DictGet(SettingsDefaults, attr)

----------------------------------------------------------------------------
(* The secret resolver *)

\* SecretClient.get_secret(name) of the Azure SDK: a value, or an exception
\* when the vault does not answer or does not hold the name.
SdkGetSecret(up, vlt, vname) ==
    IF up /\ vname \in DOMAIN vlt
    THEN [ok |-> TRUE, value |-> vlt[vname]]
    ELSE [ok |-> FALSE, value |-> None]

\* get_secret as it would be with a retry of a failed vault read.
KVGetSecretRetrying(cl, cache, vname, up, vlt, env) ==
    IF cl = None
    THEN [ret |-> DictGet(env, EnvVarOf(vname)), cache |-> cache,
          reads |-> 0, via |-> "noclient", raised |-> FALSE]
    ELSE IF vname \in DOMAIN cache
    THEN [ret |-> cache[vname], cache |-> cache,
          reads |-> 0, via |-> "cache", raised |-> FALSE]
    ELSE LET r == SdkGetSecret(up, vlt, vname)
         IN  IF r.ok
             THEN [ret |-> r.value, cache |-> DictSet(cache, vname, r.value),
                   reads |-> 1, via |-> "vault", raised |-> FALSE]
             ELSE [ret |-> DictGet(env, EnvVarOf(vname)), cache |-> cache,
                   reads |-> 2, via |-> "except", raised |-> FALSE]

\* get_secret as it would be if the except branch cached what it returns.
KVGetSecretCachingFallback(cl, cache, vname, up, vlt, env) ==
    IF cl = None
    THEN [ret |-> DictGet(env, EnvVarOf(vname)), cache |-> cache,
          reads |-> 0, via |-> "noclient", raised |-> FALSE]
    ELSE IF vname \in DOMAIN cache
    THEN [ret |-> cache[vname], cache |-> cache,
          reads |-> 0, via |-> "cache", raised |-> FALSE]
    ELSE LET r == SdkGetSecret(up, vlt, vname)
             e == DictGet(env, EnvVarOf(vname))
         IN  IF r.ok
             THEN [ret |-> r.value, cache |-> DictSet(cache, vname, r.value),
                   reads |-> 1, via |-> "vault", raised |-> FALSE]
             ELSE [ret |-> e,
                   cache |-> IF Truthy(e) THEN DictSet(cache, vname, e)
                             ELSE cache,
                   reads |-> 1, via |-> "except", raised |-> FALSE]

\* AzureKeyVaultClient.get_secret(secret_name), use_cache = True.
\* via names the return statement taken; reads counts the SDK read calls.
KVGetSecret(cl, cache, vname, up, vlt, env) ==
    IF cl = None
    THEN [ret |-> DictGet(env, EnvVarOf(vname)), cache |-> cache,
          reads |-> 0, via |-> "noclient", raised |-> FALSE]
    ELSE IF vname \in DOMAIN cache
    THEN [ret |-> cache[vname], cache |-> cache,
          reads |-> 0, via |-> "cache", raised |-> FALSE]
    ELSE LET r == SdkGetSecret(up, vlt, vname)
         IN  IF r.ok
             THEN [ret |-> r.value, cache |-> DictSet(cache, vname, r.value),
                   reads |-> 1, via |-> "vault", raised |-> FALSE]
             ELSE [ret |-> DictGet(env, EnvVarOf(vname)), cache |-> cache,
                   reads |-> 1, via |-> "except", raised |-> FALSE]

\* set_secret as it would be if it updated the cache before the write.
KVSetSecretCachingFirst(cl, cache, vname, value, up, vlt) ==
    IF cl = None
    THEN [ok |-> FALSE, cache |-> cache, vault |-> vlt, writes |-> 0,
          raised |-> FALSE]
    ELSE IF up
    THEN [ok |-> TRUE, cache |-> DictSet(cache, vname, value),
          vault |-> DictSet(vlt, vname, value), writes |-> 1,
          raised |-> FALSE]
    ELSE [ok |-> FALSE, cache |-> DictSet(cache, vname, value),
          vault |-> vlt, writes |-> 1, raised |-> FALSE]

\* AzureKeyVaultClient.set_secret(secret_name, secret_value)
KVSetSecret(cl, cache, vname, value, up, vlt) ==
    IF cl = None
    THEN [ok |-> FALSE, cache |-> cache, vault |-> vlt, writes |-> 0,
          raised |-> FALSE]
    ELSE IF up
    THEN [ok |-> TRUE, cache |-> DictSet(cache, vname, value),
          vault |-> DictSet(vlt, vname, value), writes |-> 1,
          raised |-> FALSE]
    ELSE [ok |-> FALSE, cache |-> cache, vault |-> vlt, writes |-> 1,
          raised |-> FALSE]

\* AzureKeyVaultClient.delete_secret(secret_name)
KVDeleteSecret(cl, cache, vname, up, vlt) ==
    IF cl = None
    THEN [ok |-> FALSE, cache |-> cache, vault |-> vlt]
    ELSE IF up
    THEN [ok |-> TRUE, cache |-> DictPop(cache, vname),
          vault |-> DictPop(vlt, vname)]
    ELSE [ok |-> FALSE, cache |-> cache, vault |-> vlt]

\* SecureSettings.initialize(): the Key Vault objects after the call.  sdk is
\* what constructing the client does: "ok", "import_error" (the Azure
\* packages are missing) or "credential_error" (_initialize_client catches it
\* and leaves client = None).
Initialize(inited, use_kv, url, kvc, cl, sdk) ==
    IF inited
    THEN [key_vault_client |-> kvc, client |-> cl]
    ELSE IF use_kv /\ Truthy(url)
    THEN CASE sdk = "import_error" ->
                [key_vault_client |-> None, client |-> None]
           [] sdk = "credential_error" ->
                [key_vault_client |-> "AzureKeyVaultClient", client |-> None]
           [] OTHER ->
                [key_vault_client |-> "AzureKeyVaultClient",
                 client |-> "SecretClient"]
    ELSE [key_vault_client |-> None, client |-> None]

\* AzureKeyVaultClient.is_available(), guarded by the `_key_vault_client and`
\* of its callers
IsAvailable(kvc, cl) == kvc # None /\ cl # None

\* A get_secret whose fallback is the environment variable alone.
SettingsGetSecretEnvOnly(kvc, cl, cache, prefix, name, fb, up, vlt, env) ==
    LET env_var  == IF fb # <<>> THEN fb ELSE EnvVarOf(name)
        Fallback == DictGet(env, env_var)
        Answer(kv, fallback) ==
            IF ~kv.raised /\ Truthy(kv.ret)
            THEN [ret |-> kv.ret, cache |-> kv.cache, reads |-> kv.reads,
                  via |-> "vault", raised |-> FALSE,
                  kvvia |-> kv.via, kvret |-> kv.ret]
            ELSE [ret |-> fallback, cache |-> kv.cache, reads |-> kv.reads,
                  via |-> "fallback", raised |-> FALSE,
                  kvvia |-> kv.via, kvret |-> kv.ret]
    IN  IF IsAvailable(kvc, cl)
        THEN Answer(KVGetSecret(cl, cache, prefix \o name, up, vlt, env),
                    Fallback)
        ELSE [ret |-> Fallback, cache |-> cache, reads |-> 0,
              via |-> "fallback", raised |-> FALSE,
              kvvia |-> "notcalled", kvret |-> None]

\* SecureSettings.get_secret(secret_name, fallback_env_var) after
\* initialize().  fb = <<>> stands for no (or an empty) fallback name.
\* via names the return statement taken; kvvia and kvret are the return
\* statement and the value of the Key Vault client's get_secret, when called.
SettingsGetSecret(kvc, cl, cache, prefix, name, fb, up, vlt, env) ==
    LET env_var  == IF fb # <<>> THEN fb ELSE EnvVarOf(name)
        Fallback == PyOr(DictGet(env, env_var), SettingsAttr(Lower(env_var)))
        Answer(kv, fallback) ==
            IF ~kv.raised /\ Truthy(kv.ret)
            THEN [ret |-> kv.ret, cache |-> kv.cache, reads |-> kv.reads,
                  via |-> "vault", raised |-> FALSE,
                  kvvia |-> kv.via, kvret |-> kv.ret]
            ELSE [ret |-> fallback, cache |-> kv.cache, reads |-> kv.reads,
                  via |-> "fallback", raised |-> FALSE,
                  kvvia |-> kv.via, kvret |-> kv.ret]
    IN  IF IsAvailable(kvc, cl)
        THEN Answer(KVGetSecret(cl, cache, prefix \o name, up, vlt, env),
                    Fallback)
        ELSE [ret |-> Fallback, cache |-> cache, reads |-> 0,
              via |-> "fallback", raised |-> FALSE,
              kvvia |-> "notcalled", kvret |-> None]

\* SecureSettings.set_secret(secret_name, secret_value) after initialize()
SettingsSetSecret(kvc, cl, cache, prefix, name, value, up, vlt) ==
    IF IsAvailable(kvc, cl)
    THEN KVSetSecret(cl, cache, prefix \o name, value, up, vlt)
    ELSE [ok |-> FALSE, cache |-> cache, vault |-> vlt, writes |-> 0,
          raised |-> FALSE]

----------------------------------------------------------------------------
(* Resolver operations as actions *)

OPENAI_MODEL == <<"OPENAI", "_", "MODEL">>

\* The secret names the resolver is asked for, the explicit fallback names
\* given with them, and the values written.
SecretNames   == {GithubToken, OpenaiModel}
FallbackNames == {<<>>, ALT}
SecretValues  == {"", "v2"}
SdkOutcomes   == {"ok", "import_error", "credential_error"}

\* What constructing the Key Vault client can do in this call: it is only
\* constructed by the first initialize() of a configured deployment.
SdkChoices ==
    IF ~settings_initialized /\ use_key_vault /\ Truthy(azure_key_vault_url)
    THEN SdkOutcomes
    ELSE {"ok"}

\* The value each environment variable has when it is set.
EnvValueOf(var) ==
    CASE var = GITHUB_TOKEN       -> "env-github"
      [] var = OPENAI_MODEL       -> "env-model"
      [] var = ALT                -> "env-alt"
      [] var = OPENAI_API_KEY     -> "env-openai"
      [] var = ASANA_ACCESS_TOKEN -> "env-asana"
      [] var = DEV_GITHUB_TOKEN   -> "env-dev-github"
      [] OTHER                    -> "env-other"

EnvOver(varset) == [v \in varset |-> EnvValueOf(v)]

NoOp == [op |-> "none", name |-> <<>>, fb |-> <<>>, value |-> None,
         ret |-> None, ok |-> FALSE, reads |-> 0, writes |-> 0,
         via |-> "none", raised |-> FALSE, kvvia |-> "notcalled",
         kvret |-> None, avail |-> FALSE, cached |-> FALSE, tick |-> FALSE]

\* Nothing was created at the two services; no sync request was served.
NoRecords == [issues |-> <<>>, task_comments |-> <<>>, tasks |-> <<>>,
              issue_comments |-> <<>>]

\* The client an adapter holds: the token it was built with and who built
\* it ("call": a command or a sync request; else the concurrent first use).
BuiltClient(token, by) == [token |-> token, by |-> by]
NoClient == BuiltClient(None, "nobody")

\* The concurrent first uses of an adapter, and where each stands in
\* _ensure_initialized: not called yet ("idle"), suspended in the vault read
\* ("reading"), returned ("done") or raised ("raised").
Uses == {"t1", "t2"}
At(at, adapter, constructed) ==
    [at |-> at, adapter |-> adapter, constructed |-> constructed]
Idle == At("idle", "none", FALSE)

\* The concurrent calls of the resolver, and where each stands: not called
\* yet ("idle"), suspended in run_in_executor before the SDK call ran
\* ("awaiting") or after it ran ("answered"), or returned ("done").  answer
\* is what the SDK call did, reads and writes count the SDK calls.
Callers == {"r1", "r2"}
NoAnswer == [ok |-> FALSE, value |-> None]
Pending(at, op, name, value, answer, reads, writes, ret) ==
    [at |-> at, op |-> op, name |-> name, value |-> value,
     answer |-> answer, reads |-> reads, writes |-> writes, ret |-> ret]
NotCalled == Pending("idle", "none", <<>>, None, NoAnswer, 0, 0, None)

\* The concurrent sync flows, and where each stands: not called yet
\* ("idle"), holding the event loop before adapter method `next` of its
\* flow ("running"), suspended in the vault read of that method's
\* _ensure_initialized ("reading"), or returned ("ended").
Syncs == {"s1", "s2"}
Flow(at, action, next, fresh, result) ==
    [at |-> at, action |-> action, next |-> next, fresh |-> fresh,
     result |-> result]
NotStarted == Flow("idle", "none", 0, 0, "none")

assistantIdle ==
    /\ pending = [t \in Callers |-> NotCalled]
    /\ in_flight = [s \in Syncs |-> NotStarted]
    /\ openai_initialized = FALSE
    /\ asana_initialized = FALSE
    /\ github_initialized = FALSE
    /\ adapter_client = [asana |-> NoClient, github |-> NoClient]
    /\ first_use = [t \in Uses |-> Idle]
    /\ outcome = [kind |-> "none"]
    /\ remote = NoRecords
    /\ response = [kind |-> "none"]

\* settings.get_secret(name, fb)
GetSecret(name, fb, sdk) ==
    \E i \in {Initialize(settings_initialized, use_key_vault,
                         azure_key_vault_url, key_vault_client, client,
                         sdk)} :
    \E r \in {SettingsGetSecret(i.key_vault_client, i.client, secrets_cache,
                                key_vault_secret_prefix, name, fb, vaultUp,
                                vault, environ)} :
        /\ settings_initialized' = TRUE
        /\ key_vault_client' = i.key_vault_client
        /\ client' = i.client
        /\ secrets_cache' = r.cache
        /\ last' = [op |-> "get", name |-> name, fb |-> fb, value |-> None,
                    ret |-> r.ret, ok |-> FALSE, reads |-> r.reads,
                    writes |-> 0, via |-> r.via, raised |-> r.raised,
                    kvvia |-> r.kvvia, kvret |-> r.kvret,
                    avail |-> IsAvailable(i.key_vault_client, i.client),
                    cached |-> (key_vault_secret_prefix \o name)
                                  \in DOMAIN secrets_cache,
                    tick |-> ~last.tick]
        /\ UNCHANGED <<environ, vault, vaultUp, use_key_vault,
                       azure_key_vault_url, key_vault_secret_prefix>>
        /\ UNCHANGED <<assistantVars, syncVars, concurrentVars>>

\* settings.set_secret(name, value)
SetSecret(name, value, sdk) ==
    \E i \in {Initialize(settings_initialized, use_key_vault,
                         azure_key_vault_url, key_vault_client, client,
                         sdk)} :
    \E r \in {SettingsSetSecret(i.key_vault_client, i.client, secrets_cache,
                                key_vault_secret_prefix, name, value,
                                vaultUp, vault)} :
        /\ settings_initialized' = TRUE
        /\ key_vault_client' = i.key_vault_client
        /\ client' = i.client
        /\ secrets_cache' = r.cache
        /\ vault' = r.vault
        /\ last' = [op |-> "set", name |-> name, fb |-> <<>>,
                    value |-> value, ret |-> None, ok |-> r.ok, reads |-> 0,
                    writes |-> r.writes, via |-> "set", raised |-> r.raised,
                    kvvia |-> "notcalled", kvret |-> None,
                    avail |-> IsAvailable(i.key_vault_client, i.client),
                    cached |-> (key_vault_secret_prefix \o name)
                                  \in DOMAIN secrets_cache,
                    tick |-> ~last.tick]
        /\ UNCHANGED <<environ, vaultUp, use_key_vault, azure_key_vault_url,
                       key_vault_secret_prefix>>
        /\ UNCHANGED <<assistantVars, syncVars, concurrentVars>>

\* key_vault_client.get_secret(name) called on the client object directly,
\* as scripts/setup_keyvault.py does
ClientGetSecret(name) ==
    LET vname == key_vault_secret_prefix \o name
    IN  \E r \in {KVGetSecret(client, secrets_cache, vname, vaultUp, vault,
                              environ)} :
        /\ key_vault_client # None
        /\ secrets_cache' = r.cache
        /\ last' = [op |-> "kvget", name |-> name, fb |-> <<>>,
                    value |-> None, ret |-> r.ret, ok |-> FALSE,
                    reads |-> r.reads, writes |-> 0, via |-> r.via,
                    raised |-> r.raised, kvvia |-> r.via, kvret |-> r.ret,
                    avail |-> (client # None),
                    cached |-> vname \in DOMAIN secrets_cache,
                    tick |-> ~last.tick]
        /\ UNCHANGED <<environ, vault, vaultUp, use_key_vault,
                       azure_key_vault_url, key_vault_secret_prefix,
                       settings_initialized, key_vault_client, client>>
        /\ UNCHANGED <<assistantVars, syncVars, concurrentVars>>

\* key_vault_client.clear_cache() on the client object settings holds
ClearCache ==
    /\ key_vault_client # None
    /\ secrets_cache' = EmptyMap
    /\ last' = [NoOp EXCEPT !.op = "clear", !.via = "clear",
                            !.tick = ~last.tick]
    /\ UNCHANGED <<environ, vault, vaultUp, use_key_vault,
                   azure_key_vault_url, key_vault_secret_prefix,
                   settings_initialized, key_vault_client, client>>
    /\ UNCHANGED <<assistantVars, syncVars, concurrentVars>>

\* key_vault_client.delete_secret(name) on the client object settings holds
DeleteSecret(name) ==
    LET vname == key_vault_secret_prefix \o name
    IN  \E r \in {KVDeleteSecret(client, secrets_cache, vname, vaultUp,
                                 vault)} :
        /\ key_vault_client # None
        /\ secrets_cache' = r.cache
        /\ vault' = r.vault
        /\ last' = [NoOp EXCEPT !.op = "delete", !.name = name,
                                !.ok = r.ok, !.via = "delete",
                                !.avail = (client # None),
                                !.cached = vname \in DOMAIN secrets_cache,
                                !.tick = ~last.tick]
        /\ UNCHANGED <<environ, vaultUp, use_key_vault, azure_key_vault_url,
                       key_vault_secret_prefix, settings_initialized,
                       key_vault_client, client>>
        /\ UNCHANGED <<assistantVars, syncVars, concurrentVars>>

\* The remote vault stops answering.
VaultOutage ==
    /\ vaultUp
    /\ vaultUp' = FALSE
    /\ UNCHANGED <<environ, vault, use_key_vault, azure_key_vault_url,
                   key_vault_secret_prefix, settings_initialized,
                   key_vault_client, client, secrets_cache, last>>
    /\ UNCHANGED <<assistantVars, syncVars, concurrentVars>>

\* The remote vault answers again.
VaultRecovery ==
    /\ ~vaultUp
    /\ vaultUp' = TRUE
    /\ UNCHANGED <<environ, vault, use_key_vault, azure_key_vault_url,
                   key_vault_secret_prefix, settings_initialized,
                   key_vault_client, client, secrets_cache, last>>
    /\ UNCHANGED <<assistantVars, syncVars, concurrentVars>>

\* The process starts: settings and the Key Vault client are constructed
\* (SecureSettings.__init__, AzureKeyVaultClient.__init__), nothing is
\* initialized, the cache is empty.  The environment, the configuration and
\* the vault's content are whatever the deployment has.
InitSecret ==
    /\ key_vault_secret_prefix \in {NoPrefix, DevPrefix}
    /\ environ \in {EnvOver(S) :
                      S \in SUBSET (IF key_vault_secret_prefix = NoPrefix
                                    THEN {GITHUB_TOKEN, OPENAI_MODEL, ALT}
                                    ELSE {GITHUB_TOKEN, DEV_GITHUB_TOKEN,
                                          ALT})}
    /\ \E held \in SUBSET SecretNames :
           vault = [n \in {key_vault_secret_prefix \o h : h \in held}
                      |-> "v1"]
    /\ vaultUp \in BOOLEAN
    /\ \E cfg \in {<<TRUE, "url">>, <<TRUE, None>>, <<FALSE, "url">>} :
           /\ use_key_vault = cfg[1]
           /\ azure_key_vault_url = cfg[2]
    /\ settings_initialized = FALSE
    /\ key_vault_client = None
    /\ client = None
    /\ secrets_cache = EmptyMap
    /\ last = NoOp
    /\ assistantIdle

NextSecret ==
    \/ \E n \in SecretNames, fb \in FallbackNames, sdk \in SdkChoices :
           GetSecret(n, fb, sdk)
    \/ \E n \in SecretNames, v \in SecretValues, sdk \in SdkChoices :
           SetSecret(n, v, sdk)
    \/ \E n \in SecretNames : ClientGetSecret(n)
    \/ ClearCache
    \/ \E n \in SecretNames : DeleteSecret(n)
    \/ VaultOutage
    \/ VaultRecovery

SpecSecret == InitSecret /\ [][NextSecret]_vars

----------------------------------------------------------------------------
(* Claims about the secret resolver, checked under SpecSecret *)

\* The vault name of the secret the last operation was about.
LastVaultName(l) == key_vault_secret_prefix \o l.name

\* A step that is one get_secret call, on settings or on the client.
IsGetStep(l, l2) == l2.tick # l.tick /\ l2.op \in {"get", "kvget"}

\* The name has no vault entry and no environment variable is set.
AbsentEverywhere ==
    /\ last.op = "get"
    /\ LastVaultName(last) \notin DOMAIN vault
    /\ DOMAIN environ = {}

C7_GetAfterSetReturnsValue ==
    [][ (/\ last.op = "set" /\ last.ok
         /\ last'.op = "get" /\ last'.name = last.name)
            => (last'.ret = last.value /\ last'.reads = 0) ]_vars

\* C8 as stated: a get_secret call returns the cached value with zero vault
\* reads when the vault is available and the name is cached, and in every
\* other case makes exactly one vault read attempt, caching and returning
\* the value on success and falling through to the environment lookup,
\* without retry and without caching, on failure.
C8_ResolutionOrderAsStated ==
    [][ IsGetStep(last, last') =>
          LET vname == LastVaultName(last')
          IN  IF last'.avail /\ vname \in DOMAIN secrets_cache
              THEN /\ last'.reads = 0
                   /\ last'.kvret = secrets_cache[vname]
                   /\ secrets_cache' = secrets_cache
              ELSE /\ last'.reads = 1
                   /\ IF vaultUp /\ vname \in DOMAIN vault
                      THEN /\ last'.kvret = vault[vname]
                           /\ secrets_cache' =
                                  DictSet(secrets_cache, vname, vault[vname])
                      ELSE /\ last'.kvret = DictGet(environ, EnvVarOf(vname))
                           /\ secrets_cache' = secrets_cache ]_vars

\* C8 amended: with no vault client available a get_secret call makes no
\* vault read at all, caches nothing and goes to the environment lookup
\* (settings does not call the client; the client called directly returns
\* the environment value); with a client available it returns the cached
\* value with zero reads when the name is cached, and otherwise makes exactly
\* one read attempt, caching and returning the value on success and falling
\* through to the environment lookup, without retry or caching, on failure.
C8_ResolutionOrder ==
    [][ IsGetStep(last, last') =>
          LET vname == LastVaultName(last')
          IN  IF ~last'.avail
              THEN /\ last'.reads = 0
                   /\ secrets_cache' = secrets_cache
                   /\ last'.op = "get" =>
                         last'.kvvia = "notcalled" /\ last'.via = "fallback"
                   /\ last'.op = "kvget" =>
                         last'.ret = DictGet(environ, EnvVarOf(vname))
              ELSE IF vname \in DOMAIN secrets_cache
              THEN /\ last'.reads = 0
                   /\ last'.kvret = secrets_cache[vname]
                   /\ secrets_cache' = secrets_cache
              ELSE /\ last'.reads = 1
                   /\ IF vaultUp /\ vname \in DOMAIN vault
                      THEN /\ last'.kvret = vault[vname]
                           /\ secrets_cache' =
                                  DictSet(secrets_cache, vname, vault[vname])
                      ELSE /\ last'.kvret = DictGet(environ, EnvVarOf(vname))
                           /\ secrets_cache' = secrets_cache ]_vars

\* C8 witness: a get_secret whose single vault read failed and which
\* returned the environment variable's value, the name left uncached.
C8_Witness ==
    /\ last.op = "get"
    /\ last.avail /\ ~last.cached
    /\ last.kvvia = "except" /\ last.reads = 1
    /\ last.ret = DictGet(environ, EnvVarOf(LastVaultName(last)))
    /\ Truthy(last.ret)
    /\ LastVaultName(last) \notin DOMAIN secrets_cache

\* Whether the step put a new entry, or a new value, into the cache for n.
CacheWrote(n) ==
    /\ n \in DOMAIN secrets_cache'
    /\ (n \notin DOMAIN secrets_cache \/ secrets_cache[n] # secrets_cache'[n])

\* The values the environment holds.
EnvironValues == {environ[v] : v \in DOMAIN environ}

C10_VaultRecoveryObserved ==
    [][ (/\ last.op = "get" /\ last.via = "fallback"
         /\ last.kvvia \in {"notcalled", "except"}
         /\ last'.tick # last.tick
         /\ last'.op = "get" /\ last'.name = last.name
         /\ use_key_vault /\ Truthy(azure_key_vault_url)
         /\ vaultUp
         /\ LastVaultName(last) \in DOMAIN vault
         /\ Truthy(vault[LastVaultName(last)]))
            => last'.ret = vault[LastVaultName(last)] ]_vars

\* The environment variable the caller's fallback names: the explicit one,
\* else the secret's name upper-cased with '-' replaced by '_'.
FallbackVariable(l) ==
    IF l.fb # <<>>
    THEN l.fb
    ELSE CASE l.name = GithubToken -> GITHUB_TOKEN
           [] l.name = OpenaiModel -> OPENAI_MODEL

\* The last operation was a get_secret that got no value from the vault:
\* no client was available, or its one read failed.
VaultFailedGet ==
    /\ last.op = "get"
    /\ last.kvvia \in {"notcalled", "except"}

\* C11: on any vault failure get(name, fallbackEnvVar) returns the value of
\* the variable fallbackEnvVar when one is given and otherwise of the
\* variable derived from name (None when it is not set); no other
\* environment variable determines the result, with or without a
\* configured secret-name prefix.
C11_FallbackVariableDecides ==
    VaultFailedGet => last.ret = DictGet(environ, FallbackVariable(last))

\* C12: set(name, value) never raises.  It returns False when no vault
\* client is available (no write is attempted) or when the write fails, and
\* then the cache and the vault are unchanged; it returns True only after
\* the write succeeded, and then the vault and the cache map the secret's
\* vault name to value and the rest of the cache is unchanged.
C12_SetNeverRaises ==
    [][ (last'.tick # last.tick /\ last'.op = "set") =>
          LET vname == LastVaultName(last')
          IN  /\ ~last'.raised
              /\ ~last'.avail => (~last'.ok /\ last'.writes = 0)
              /\ (last'.avail /\ ~vaultUp) => ~last'.ok
              /\ ~last'.ok =>
                    (secrets_cache' = secrets_cache /\ vault' = vault)
              /\ last'.ok =>
                    /\ last'.avail /\ vaultUp /\ last'.writes = 1
                    /\ vault' = DictSet(vault, vname, last'.value)
                    /\ secrets_cache'
                          = DictSet(secrets_cache, vname, last'.value) ]_vars

\* C12 witness: a set_secret whose write to the vault failed: it returned
\* False and the name is not cached.
C12_Witness ==
    /\ last.op = "set" /\ last.avail
    /\ last.writes = 1 /\ ~last.ok
    /\ ~last.cached
    /\ LastVaultName(last) \notin DOMAIN secrets_cache

----------------------------------------------------------------------------
(* The language-model reply and json.loads *)

\* JSON tokens.  A member is one `"k": v` of an object; v is a string, a
\* number written as a string, "null", or "object" for a nested mapping.
LB          == [t |-> "{", k |-> "", v |-> ""]
RB          == [t |-> "}", k |-> "", v |-> ""]
LSQ         == [t |-> "[", k |-> "", v |-> ""]
RSQ         == [t |-> "]", k |-> "", v |-> ""]
JNull       == [t |-> "null", k |-> "", v |-> ""]
JString(x)  == [t |-> "string", k |-> "", v |-> x]
Prose       == [t |-> "prose", k |-> "", v |-> ""]
Member(k, v) == [t |-> "member", k |-> k, v |-> v]

\* A parser that keeps the first value of a repeated key.
ObjectPairsFirstWins(ms) ==
    [k \in {ms[i].k : i \in 1..Len(ms)} |->
        ms[CHOOSE i \in 1..Len(ms) :
               /\ ms[i].k = k
               /\ \A j \in 1..(i - 1) : ms[j].k # k].v]

\* The members of an object as a dict: a repeated key keeps its last value.
RECURSIVE ObjectPairs(_)
ObjectPairs(ms) ==
    IF ms = <<>>
    THEN EmptyMap
    ELSE LET n == Len(ms)
         IN  DictSet(ObjectPairs(SubSeq(ms, 1, n - 1)), ms[n].k, ms[n].v)

\* json.loads(text): the parsed value, or a JSONDecodeError (ok = FALSE).
\* kind is the Python type of the value.
JsonLoads(text) ==
    LET n == Len(text)
    IN  IF /\ n >= 2 /\ text[1] = LB /\ text[n] = RB
           /\ \A i \in 2..(n - 1) : text[i].t = "member"
        THEN [ok |-> TRUE, kind |-> "dict",
              map |-> ObjectPairs(SubSeq(text, 2, n - 1))]
        ELSE IF text = <<LSQ, RSQ>>
        THEN [ok |-> TRUE, kind |-> "list", map |-> EmptyMap]
        ELSE IF n = 1 /\ text[1].t = "string"
        THEN [ok |-> TRUE, kind |-> "str", map |-> EmptyMap]
        ELSE IF text = <<JNull>>
        THEN [ok |-> TRUE, kind |-> "NoneType", map |-> EmptyMap]
        ELSE [ok |-> FALSE, kind |-> "error", map |-> EmptyMap]

\* What the completion call gives back: an exception, or a reply text.
Absent == "<absent>"

KnownPlatforms == {"asana", "github", "vscode", "multi"}

\* The actions the replies name for each platform: the ones its handler
\* matches, one it does not, and none.
ReplyActions(p) ==
    CASE p = "asana"  -> {"create_task", "create_new_task", "get_tasks",
                          "update_task", "search_tasks", "bogus", Absent}
      [] p = "github" -> {"create_issue", "get_issues", "create_pr",
                          "get_repositories", "bogus", Absent}
      [] p = "vscode" -> {"open_project", "setup_project", "create_task",
                          "install_extension", "bogus", Absent}
      [] p = "multi"  -> {"sync_task_to_issue", "sync_issue_to_task",
                          "bogus", Absent}
      [] OTHER        -> {"create_task", "bogus"}

Opt(k, v) == IF v = Absent THEN <<>> ELSE <<Member(k, v)>>

\* A reply in the shape the prompt asks for; any key may be missing.
ObjectReply(p, a, prm, c) ==
    <<LB, Member("intent", "request")>> \o Opt("platform", p)
        \o Opt("action", a) \o Opt("parameters", prm)
        \o Opt("confidence", c) \o <<RB>>

\* Each platform with each of its actions.
PlatformActions ==
    { pa \in (KnownPlatforms \cup {"unknown", Absent})
                \X {"create_task", "create_new_task", "get_tasks",
                    "update_task", "search_tasks", "create_issue",
                    "get_issues", "create_pr", "get_repositories",
                    "open_project", "setup_project", "install_extension",
                    "sync_task_to_issue", "sync_issue_to_task", "bogus",
                    Absent} :
        pa[2] \in ReplyActions(pa[1]) }

\* A reply carries its parameters as an object or as null, or leaves
\* parameters and confidence out.
ObjectReplies ==
    { ObjectReply(pa[1], pa[2], pc[1], pc[2]) :
        pa \in PlatformActions,
        pc \in {<<"object", "0.9">>, <<"null", "0.9">>, <<Absent, Absent>>} }

\* Replies that are no object: a repeated key, other JSON values, and text
\* json.loads rejects (a truncated object, prose around the object, nothing).
OddReplies ==
    { <<LB, Member("platform", "github"), Member("action", "get_tasks"),
        Member("platform", "asana"), RB>>,
      <<LSQ, RSQ>>,
      <<JString("create a task")>>,
      <<JNull>>,
      <<LB, Member("platform", "asana"), Member("action", "get_tasks")>>,
      <<Prose, LB, Member("platform", "asana"),
        Member("action", "get_tasks"), RB>>,
      <<>> }

ReplyTexts == ObjectReplies \cup OddReplies

----------------------------------------------------------------------------
(* Credentials and the lazily initialized clients *)

\* The resolver's mutable state, threaded through one command.
ResolverState ==
    [inited |-> settings_initialized, kvc |-> key_vault_client,
     cl |-> client, cache |-> secrets_cache]

\* settings.get_secret(name, fb) from resolver state R: the value and the
\* state after the call
Resolve(R, name, fb, sdk) ==
    LET Got(i, g) ==
            [ret |-> g.ret,
             R |-> [inited |-> TRUE, kvc |-> i.key_vault_client,
                    cl |-> i.client, cache |-> g.cache]]
        Get(i) ==
            Got(i, SettingsGetSecret(i.key_vault_client, i.client, R.cache,
                                     key_vault_secret_prefix, name, fb,
                                     vaultUp, vault, environ))
    IN  Get(Initialize(R.inited, use_key_vault, azure_key_vault_url,
                       R.kvc, R.cl, sdk))

GetAsanaAccessToken(R, sdk) ==
    Resolve(R, AsanaAccessToken, ASANA_ACCESS_TOKEN, sdk)
GetGithubToken(R, sdk) == Resolve(R, GithubToken, GITHUB_TOKEN, sdk)
GetOpenaiApiKey(R, sdk) == Resolve(R, OpenaiApiKey, OPENAI_API_KEY, sdk)

\* An _ensure_openai_initialized that goes on without a key.
EnsureOpenaiInitializedWithoutKey(a, sdk) ==
    LET With(g) == [ok |-> TRUE, a |-> [a EXCEPT !.openai = TRUE, !.R = g.R]]
    IN  IF a.openai
        THEN [ok |-> TRUE, a |-> a]
        ELSE With(GetOpenaiApiKey(a.R, sdk))

\* The assistant's mutable state: a = [openai, asana, github, clients, R].
\* AIAssistant._ensure_openai_initialized(): ok = FALSE is the raise.
EnsureOpenaiInitialized(a, sdk) ==
    LET With(g) ==
            IF Truthy(g.ret)
            THEN [ok |-> TRUE, a |-> [a EXCEPT !.openai = TRUE, !.R = g.R]]
            ELSE [ok |-> FALSE, a |-> [a EXCEPT !.R = g.R]]
    IN  IF a.openai
        THEN [ok |-> TRUE, a |-> a]
        ELSE With(GetOpenaiApiKey(a.R, sdk))

\* An _ensure_initialized that sets _initialized before it looks at the
\* token.
AsanaEnsureInitializedFlagFirst(a, sdk) ==
    LET With(g) ==
            IF Truthy(g.ret)
            THEN [ok |-> TRUE,
                  a |-> [a EXCEPT !.asana = TRUE, !.R = g.R,
                                  !.clients.asana = BuiltClient(g.ret, "call")]]
            ELSE [ok |-> FALSE, a |-> [a EXCEPT !.asana = TRUE, !.R = g.R]]
    IN  IF a.asana
        THEN [ok |-> TRUE, a |-> a]
        ELSE With(GetAsanaAccessToken(a.R, sdk))

\* AsanaClient._ensure_initialized()
AsanaEnsureInitialized(a, sdk) ==
    LET With(g) ==
            IF Truthy(g.ret)
            THEN [ok |-> TRUE,
                  a |-> [a EXCEPT !.asana = TRUE, !.R = g.R,
                                  !.clients.asana = BuiltClient(g.ret, "call")]]
            ELSE [ok |-> FALSE, a |-> [a EXCEPT !.R = g.R]]
    IN  IF a.asana
        THEN [ok |-> TRUE, a |-> a]
        ELSE With(GetAsanaAccessToken(a.R, sdk))

\* GitHubClient._ensure_initialized()
GithubEnsureInitialized(a, sdk) ==
    LET With(g) ==
            IF Truthy(g.ret)
            THEN [ok |-> TRUE,
                  a |-> [a EXCEPT !.github = TRUE, !.R = g.R,
                                  !.clients.github = BuiltClient(g.ret, "call")]]
            ELSE [ok |-> FALSE, a |-> [a EXCEPT !.R = g.R]]
    IN  IF a.github
        THEN [ok |-> TRUE, a |-> a]
        ELSE With(GetGithubToken(a.R, sdk))

\* The arguments of an adapter method that the sync flows rely on: the
\* record or collection it addresses, and the title, text and labels it
\* sends.  A text is the sequence of the pieces its f-string joins.
Args(on, title, text, labels) ==
    [on |-> on, title |-> title, text |-> text, labels |-> labels]
NoArgs == Args(<<>>, <<>>, <<>>, <<>>)

\* One adapter method: which adapter, which method.
Call(adapter, op) == [adapter |-> adapter, op |-> op, args |-> NoArgs]
\* The same with the arguments it is given.
CallWith(adapter, op, args) == [adapter |-> adapter, op |-> op, args |-> args]
\* One remote call made, with whether it succeeded.
Made(c, ok) == [adapter |-> c.adapter, op |-> c.op, args |-> c.args, ok |-> ok]

NoFail == [at |-> 0, how |-> "none"]

\* A try block that goes on to the next adapter method after one raised.
RECURSIVE RunCallsContinuing(_, _, _, _, _, _)
RunCallsContinuing(plan, from, to, a, fail, sdk) ==
    IF from > to
    THEN [a |-> a, calls |-> <<>>, raised |-> FALSE, err |-> ""]
    ELSE LET c == plan[from]
             Then(ok, rest) ==
                 [a |-> rest.a, calls |-> <<Made(c, ok)>> \o rest.calls,
                  raised |-> ~ok \/ rest.raised,
                  err |-> IF ok THEN rest.err ELSE "remote call failed"]
             Await(e) ==
                 IF ~e.ok
                 THEN [a |-> e.a, calls |-> <<>>, raised |-> TRUE,
                       err |-> "token not found"]
                 ELSE Then(~(fail.at = from /\ fail.how = "remote"),
                           RunCallsContinuing(plan, from + 1, to, e.a, fail,
                                              sdk))
         IN  Await(CASE c.adapter = "asana"  ->
                           AsanaEnsureInitialized(a, sdk)
                     [] c.adapter = "github" ->
                           GithubEnsureInitialized(a, sdk)
                     [] OTHER -> [ok |-> TRUE, a |-> a])

\* The adapter methods plan[from..to] awaited one after the other, as a
\* handler's try block does: each first ensures its client is initialized
\* (the editor integration needs no credential), then makes its remote
\* call.  fail names the call that fails: "remote" raises from the call,
\* "local" raises in the handler's own code just before it.  The first
\* raise ends the block.  calls are the remote calls made, in order.
RECURSIVE RunCalls(_, _, _, _, _, _)
RunCalls(plan, from, to, a, fail, sdk) ==
    IF from > to
    THEN [a |-> a, calls |-> <<>>, raised |-> FALSE, err |-> ""]
    ELSE IF fail.at = from /\ fail.how = "local"
    THEN [a |-> a, calls |-> <<>>, raised |-> TRUE, err |-> "KeyError"]
    ELSE LET c == plan[from]
             Then(rest) ==
                 [a |-> rest.a, calls |-> <<Made(c, TRUE)>> \o rest.calls,
                  raised |-> rest.raised, err |-> rest.err]
             Await(e) ==
                 IF ~e.ok
                 THEN [a |-> e.a, calls |-> <<>>, raised |-> TRUE,
                       err |-> "token not found"]
                 ELSE IF fail.at = from /\ fail.how = "remote"
                 THEN [a |-> e.a, calls |-> <<Made(c, FALSE)>>,
                       raised |-> TRUE, err |-> "remote call failed"]
                 ELSE Then(RunCalls(plan, from + 1, to, e.a, fail, sdk))
         IN  Await(CASE c.adapter = "asana"  ->
                           AsanaEnsureInitialized(a, sdk)
                     [] c.adapter = "github" ->
                           GithubEnsureInitialized(a, sdk)
                     [] OTHER -> [ok |-> TRUE, a |-> a])

\* A handler branch that reads its parameters and awaits one adapter
\* method: the value it returns, or the value the handler's except clause
\* returns (failed is that message's fixed part).
OneCall(c, failed, tag, parameters, a, inp) ==
    LET Return(r) ==
            IF r.raised
            THEN [result |-> ("error" :> <<failed, r.err>>),
                  calls |-> r.calls, a |-> r.a]
            ELSE [result |-> ("action" :> tag) @@ ("data" :> c.op),
                  calls |-> r.calls, a |-> r.a]
    IN  IF parameters = None
        THEN [result |-> ("error" :> <<failed, "AttributeError">>),
              calls |-> <<>>, a |-> a]
        ELSE Return(RunCalls(<<c>>, 1, 1, a, inp.fail, inp.sdk))

\* A task-tracker handler whose last branch lists tasks instead of
\* rejecting the action.
HandleAsanaActionDefaulting(action, parameters, a, inp) ==
    LET failed == "Asana action failed: "
    IN  CASE action \in {"create_task", "create_new_task"} ->
                OneCall(Call("asana", "create_task"), failed, "task_created",
                        parameters, a, inp)
          [] action = "update_task" ->
                OneCall(Call("asana", "update_task"), failed, "task_updated",
                        parameters, a, inp)
          [] action = "search_tasks" ->
                OneCall(Call("asana", "search_tasks"), failed, "tasks_found",
                        parameters, a, inp)
          [] OTHER ->
                OneCall(Call("asana", "get_tasks"), failed,
                        "tasks_retrieved", parameters, a, inp)

\* AIAssistant._handle_asana_action(action, parameters, user_input)
HandleAsanaAction(action, parameters, a, inp) ==
    LET failed == "Asana action failed: "
    IN  CASE action \in {"create_task", "create_new_task"} ->
                OneCall(Call("asana", "create_task"), failed, "task_created",
                        parameters, a, inp)
          [] action = "get_tasks" ->
                OneCall(Call("asana", "get_tasks"), failed,
                        "tasks_retrieved", parameters, a, inp)
          [] action = "update_task" ->
                OneCall(Call("asana", "update_task"), failed, "task_updated",
                        parameters, a, inp)
          [] action = "search_tasks" ->
                OneCall(Call("asana", "search_tasks"), failed, "tasks_found",
                        parameters, a, inp)
          [] OTHER ->
                [result |-> ("error" :> <<"Unknown Asana action: ", action>>),
                 calls |-> <<>>, a |-> a]

\* AIAssistant._handle_github_action(action, parameters, user_input)
HandleGithubAction(action, parameters, a, inp) ==
    LET failed == "GitHub action failed: "
    IN  CASE action = "create_issue" ->
                OneCall(Call("github", "create_issue"), failed,
                        "issue_created", parameters, a, inp)
          [] action = "get_issues" ->
                OneCall(Call("github", "get_issues"), failed,
                        "issues_retrieved", parameters, a, inp)
          [] action = "create_pr" ->
                OneCall(Call("github", "create_pull_request"), failed,
                        "pr_created", parameters, a, inp)
          [] action = "get_repositories" ->
                \* the one branch that does not read its parameters
                OneCall(Call("github", "get_repositories"), failed,
                        "repositories_retrieved", "object", a, inp)
          [] OTHER ->
                [result |-> ("error" :> <<"Unknown GitHub action: ", action>>),
                 calls |-> <<>>, a |-> a]

\* A _handle_vscode_action branch: the editor integration returns whether
\* it succeeded.  The methods that run the editor's command return whether
\* its exit code was 0 ("false": it was not); the others return True.
EditorCall(c, tag, parameters, a, inp) ==
    LET nonzero == /\ c.op \in {"open_project", "install_extension"}
                   /\ inp.fail.at = 1
                   /\ inp.fail.how = "false"
        Return(r) ==
            IF "error" \in DOMAIN r.result
            THEN r
            ELSE [r EXCEPT !.result =
                     ("action" :> tag) @@ ("success" :> ~nonzero)]
    IN  Return(OneCall(c, "VSCode action failed: ", tag, parameters, a, inp))

\* AIAssistant._handle_vscode_action(action, parameters, user_input)
HandleVscodeAction(action, parameters, a, inp) ==
    CASE action = "open_project" ->
            EditorCall(Call("vscode", "open_project"), "project_opened",
                       parameters, a, inp)
      [] action = "setup_project" ->
            EditorCall(Call("vscode", "setup_project_structure"),
                       "project_setup", parameters, a, inp)
      [] action = "create_task" ->
            EditorCall(Call("vscode", "create_task"), "vscode_task_created",
                       parameters, a, inp)
      [] action = "install_extension" ->
            EditorCall(Call("vscode", "install_extension"),
                       "extension_installed", parameters, a, inp)
      [] OTHER ->
            [result |-> ("error" :> <<"Unknown VSCode action: ", action>>),
             calls |-> <<>>, a |-> a]

\* parameters.get(k): the entry of the parameters mapping, None without it.
Param(inp, k) == DictGet(inp.params, k)

\* What the task tracker returns for the task gid.
Task(gid) == [gid |-> gid, name |-> <<"Fix bug">>, notes |-> <<"n">>]

\* An issue of repo as the code host returns it.
HtmlUrl(repo, number) == <<"html_url", repo, number>>
Issue(repo, number) ==
    [number |-> number, title |-> <<"Crash">>, body |-> <<"issue body">>,
     html_url |-> HtmlUrl(repo, number)]

\* A lookup that takes the first open issue whatever its number.
NextIssueAnyNumber(issues, n) == IF issues = <<>> THEN 0 ELSE 1

\* next((i for i in issues if i["number"] == n), None), as the position of
\* that issue in the list, 0 for None.
NextIssue(issues, n) ==
    IF \E i \in 1..Len(issues) : issues[i].number = n
    THEN CHOOSE i \in 1..Len(issues) :
             /\ issues[i].number = n
             /\ \A j \in 1..(i - 1) : issues[j].number # n
    ELSE 0

\* A sync_task_to_issue whose issue body leaves the task id out.
TaskToIssuePlanWithoutTaskId(inp) ==
    LET task == Task(Param(inp, "task_gid"))
    IN  <<CallWith("asana", "get_task_by_gid",
                   Args(<<Param(inp, "task_gid")>>, <<>>, <<>>, <<>>)),
          CallWith("github", "create_issue",
                   Args(<<Param(inp, "repo_name")>>, task.name,
                        <<<<"Synced from Asana task: ">>, task.notes>>,
                        <<"asana-sync">>)),
          CallWith("asana", "add_comment_to_task",
                   Args(<<Param(inp, "task_gid")>>, <<>>,
                        <<<<"GitHub issue created: ">>,
                          HtmlUrl(Param(inp, "repo_name"), inp.fresh)>>,
                        <<>>))>>

\* The adapter methods of sync_task_to_issue, in the order awaited, with
\* their arguments.  inp.fresh is the number the code host gives the issue.
TaskToIssuePlan(inp) ==
    LET task == Task(Param(inp, "task_gid"))
    IN  <<CallWith("asana", "get_task_by_gid",
                   Args(<<Param(inp, "task_gid")>>, <<>>, <<>>, <<>>)),
          CallWith("github", "create_issue",
                   Args(<<Param(inp, "repo_name")>>, task.name,
                        <<<<"Synced from Asana task: ">>, task.notes,
                          <<"\n\nTask ID: ">>, <<task.gid>>>>,
                        <<"asana-sync">>)),
          CallWith("asana", "add_comment_to_task",
                   Args(<<Param(inp, "task_gid")>>, <<>>,
                        <<<<"GitHub issue created: ">>,
                          HtmlUrl(Param(inp, "repo_name"), inp.fresh)>>,
                        <<>>))>>

\* The first adapter method of sync_issue_to_task: the open issues of the
\* repository.
IssueLookup(inp) ==
    CallWith("github", "get_issues",
             Args(<<Param(inp, "repo_name"), "open">>, <<>>, <<>>, <<>>))

\* The adapter methods of sync_issue_to_task, in the order awaited, once
\* issue was found among the open issues.
IssueToTaskPlan(inp, issue) ==
    <<IssueLookup(inp),
      CallWith("asana", "create_task",
               Args(<<Param(inp, "project_gid")>>, issue.title,
                    <<<<"Synced from GitHub issue: ">>, issue.body,
                      <<"\n\nIssue URL: ">>, issue.html_url>>,
                    <<>>)),
      CallWith("github", "add_comment_to_issue",
               Args(<<Param(inp, "repo_name"), "issue",
                      Param(inp, "issue_number")>>, <<>>,
                    <<<<"Asana task created for tracking this issue.">>>>,
                    <<>>))>>

\* AIAssistant._handle_multi_platform_action(action, parameters, user_input)
\* inp.open: the open issues the code host lists.
HandleMultiPlatformAction(action, parameters, a, inp) ==
    LET failed == "Multi-platform action failed: "
        NoParameters ==
            [result |-> ("error" :> <<failed, "AttributeError">>),
             calls |-> <<>>, a |-> a]
        Raised(calls, r) ==
            [result |-> ("error" :> <<failed, r.err>>),
             calls |-> calls \o r.calls, a |-> r.a]
        TaskSynced(r) ==
            IF r.raised
            THEN Raised(<<>>, r)
            ELSE [result |-> ("action" :> "task_synced_to_issue") @@
                             ("asana_task" :> "task") @@
                             ("github_issue" :> "issue"),
                  calls |-> r.calls, a |-> r.a]
        IssueSynced(r1, r2) ==
            IF r2.raised
            THEN Raised(r1.calls, r2)
            ELSE [result |-> ("action" :> "issue_synced_to_task") @@
                             ("github_issue" :> "issue") @@
                             ("asana_task" :> "task"),
                  calls |-> r1.calls \o r2.calls, a |-> r2.a]
        IssueChosen(r1, i) ==
            IF i = 0
            THEN [result |-> ("error" :> <<"Issue not found">>),
                  calls |-> r1.calls, a |-> r1.a]
            ELSE IssueSynced(r1, RunCalls(IssueToTaskPlan(inp, inp.open[i]),
                                          2, 3, r1.a, inp.fail, inp.sdk))
        IssuesFetched(r1) ==
            IF r1.raised
            THEN Raised(<<>>, r1)
            ELSE IssueChosen(r1, NextIssue(inp.open,
                                           Param(inp, "issue_number")))
    IN  CASE action = "sync_task_to_issue" ->
                IF parameters = None
                THEN NoParameters
                ELSE TaskSynced(RunCalls(TaskToIssuePlan(inp), 1, 3, a,
                                         inp.fail, inp.sdk))
          [] action = "sync_issue_to_task" ->
                IF parameters = None
                THEN NoParameters
                ELSE IssuesFetched(RunCalls(<<IssueLookup(inp)>>, 1, 1, a,
                                            inp.fail, inp.sdk))
          [] OTHER ->
                [result |->
                     ("error" :> <<"Unknown multi-platform action: ", action>>),
                 calls |-> <<>>, a |-> a]

\* A conversational fallback that asks the model again when the first
\* completion call fails.
GenerateResponseRetrying(a, inp) ==
    LET replied == ("action" :> "conversational_response") @@
                   ("response" :> "reply")
        With(e) ==
            IF ~e.ok
            THEN [raised |-> TRUE, err |-> <<"OpenAI API key not found">>,
                  result |-> EmptyMap, calls |-> <<>>, a |-> e.a]
            ELSE IF inp.fail.at = 1 /\ inp.fail.how = "remote"
            THEN [raised |-> FALSE, err |-> <<>>, result |-> replied,
                  calls |-> <<Made(Call("llm", "chat"), FALSE),
                              Made(Call("llm", "chat"), TRUE)>>, a |-> e.a]
            ELSE [raised |-> FALSE, err |-> <<>>, result |-> replied,
                  calls |-> <<Made(Call("llm", "chat"), TRUE)>>, a |-> e.a]
    IN  With(EnsureOpenaiInitialized(a, inp.sdk))

\* AIAssistant._generate_response(user_input, context): raised is the
\* exception of _ensure_openai_initialized, which is outside the try.
GenerateResponse(a, inp) ==
    LET With(e) ==
            IF ~e.ok
            THEN [raised |-> TRUE, err |-> <<"OpenAI API key not found">>,
                  result |-> EmptyMap, calls |-> <<>>, a |-> e.a]
            ELSE IF inp.fail.at = 1 /\ inp.fail.how = "remote"
            THEN [raised |-> FALSE, err |-> <<>>,
                  result |-> ("error" :> <<"Failed to generate response: ",
                                           "completion error">>),
                  calls |-> <<Made(Call("llm", "chat"), FALSE)>>, a |-> e.a]
            ELSE [raised |-> FALSE, err |-> <<>>,
                  result |-> ("action" :> "conversational_response") @@
                             ("response" :> "reply"),
                  calls |-> <<Made(Call("llm", "chat"), TRUE)>>, a |-> e.a]
    IN  With(EnsureOpenaiInitialized(a, inp.sdk))

\* A handler's value as _execute_action returns it.
Handled(handler, h) ==
    [raised |-> FALSE, err |-> <<>>, result |-> h.result, calls |-> h.calls,
     a |-> h.a, handler |-> handler]

\* The conversational fallback's value as _execute_action returns it.
Replied(g) ==
    [raised |-> g.raised, err |-> g.err, result |-> g.result,
     calls |-> g.calls, a |-> g.a, handler |-> "fallback"]

\* A dispatcher that also asks the model for an answer when the handler it
\* chose returned a soft error.
ExecuteActionAnsweringErrors(intent, a, inp) ==
    IF intent.kind # "dict"
    THEN [raised |-> TRUE,
          err |-> <<"'", intent.kind, "' object has no attribute 'get'">>,
          result |-> EmptyMap, calls |-> <<>>, a |-> a, handler |-> "none"]
    ELSE LET action     == DictGet(intent.map, "action")
             platform   == DictGet(intent.map, "platform")
             parameters == IF "parameters" \in DOMAIN intent.map
                           THEN IF intent.map["parameters"] = "null"
                                THEN None
                                ELSE intent.map["parameters"]
                           ELSE "object"
             Answered(h, g) ==
                 [raised |-> g.raised, err |-> g.err, result |-> h.result,
                  calls |-> h.calls \o g.calls, a |-> g.a,
                  handler |-> h.handler]
             OrAnswer(h) ==
                 IF "error" \in DOMAIN h.result
                 THEN Answered(h, GenerateResponse(h.a, inp))
                 ELSE h
         IN  CASE platform = "asana" ->
                     OrAnswer(Handled("asana",
                                      HandleAsanaAction(action, parameters, a,
                                                        inp)))
               [] platform = "github" ->
                     OrAnswer(Handled("github",
                                      HandleGithubAction(action, parameters,
                                                         a, inp)))
               [] platform = "vscode" ->
                     OrAnswer(Handled("vscode",
                                      HandleVscodeAction(action, parameters,
                                                         a, inp)))
               [] platform = "multi" ->
                     OrAnswer(Handled("multi",
                                      HandleMultiPlatformAction(
                                          action, parameters, a, inp)))
               [] OTHER -> Replied(GenerateResponse(a, inp))

\* A dispatcher that answers conversationally when the classifier is not
\* confident.
ExecuteActionWithThreshold(intent, a, inp) ==
    IF intent.kind # "dict"
    THEN [raised |-> TRUE,
          err |-> <<"'", intent.kind, "' object has no attribute 'get'">>,
          result |-> EmptyMap, calls |-> <<>>, a |-> a, handler |-> "none"]
    ELSE LET action     == DictGet(intent.map, "action")
             platform   == DictGet(intent.map, "platform")
             parameters == IF "parameters" \in DOMAIN intent.map
                           THEN IF intent.map["parameters"] = "null"
                                THEN None
                                ELSE intent.map["parameters"]
                           ELSE "object"
         IN  CASE DictGet(intent.map, "confidence") = "0" ->
                     Replied(GenerateResponse(a, inp))
               [] platform = "asana" ->
                     Handled("asana",
                             HandleAsanaAction(action, parameters, a, inp))
               [] platform = "github" ->
                     Handled("github",
                             HandleGithubAction(action, parameters, a, inp))
               [] platform = "vscode" ->
                     Handled("vscode",
                             HandleVscodeAction(action, parameters, a, inp))
               [] platform = "multi" ->
                     Handled("multi",
                             HandleMultiPlatformAction(action, parameters, a,
                                                       inp))
               [] OTHER -> Replied(GenerateResponse(a, inp))

\* AIAssistant._execute_action(intent, user_input, context).  intent is what
\* json.loads returned; only a dict has .get.
ExecuteAction(intent, a, inp) ==
    IF intent.kind # "dict"
    THEN [raised |-> TRUE,
          err |-> <<"'", intent.kind, "' object has no attribute 'get'">>,
          result |-> EmptyMap, calls |-> <<>>, a |-> a, handler |-> "none"]
    ELSE LET action     == DictGet(intent.map, "action")
             platform   == DictGet(intent.map, "platform")
             parameters == IF "parameters" \in DOMAIN intent.map
                           THEN IF intent.map["parameters"] = "null"
                                THEN None
                                ELSE intent.map["parameters"]
                           ELSE "object"
         IN  CASE platform = "asana" ->
                     Handled("asana",
                             HandleAsanaAction(action, parameters, a, inp))
               [] platform = "github" ->
                     Handled("github",
                             HandleGithubAction(action, parameters, a, inp))
               [] platform = "vscode" ->
                     Handled("vscode",
                             HandleVscodeAction(action, parameters, a, inp))
               [] platform = "multi" ->
                     Handled("multi",
                             HandleMultiPlatformAction(action, parameters, a,
                                                       inp))
               [] OTHER -> Replied(GenerateResponse(a, inp))

\* AIAssistant._analyze_intent(user_input, context).  inp.llmok: whether the
\* completion call returns; inp.text: the reply it returns.
AnalyzeIntent(a, inp) ==
    LET nothing == [ok |-> FALSE, kind |-> "error", map |-> EmptyMap]
        Loaded(e, parsed) ==
            IF ~parsed.ok
            THEN [raised |-> TRUE,
                  err |-> <<"Failed to analyze intent: ", "JSONDecodeError">>,
                  intent |-> nothing,
                  calls |-> <<Made(Call("llm", "classify"), TRUE)>>,
                  a |-> e.a]
            ELSE [raised |-> FALSE, err |-> <<>>, intent |-> parsed,
                  calls |-> <<Made(Call("llm", "classify"), TRUE)>>,
                  a |-> e.a]
        With(e) ==
            IF ~e.ok
            THEN [raised |-> TRUE,
                  err |-> <<"OpenAI API key not found in Key Vault or environment variables">>,
                  intent |-> nothing, calls |-> <<>>, a |-> e.a]
            ELSE IF ~inp.llmok
            THEN [raised |-> TRUE,
                  err |-> <<"Failed to analyze intent: ", "completion error">>,
                  intent |-> nothing,
                  calls |-> <<Made(Call("llm", "classify"), FALSE)>>,
                  a |-> e.a]
            ELSE Loaded(e, JsonLoads(inp.text))
    IN  With(EnsureOpenaiInitialized(a, inp.sdk))

\* An envelope whose success says whether the result is a soft error.
SuccessEnvelopeFlaggingSoftErrors(intent, result) ==
    [success |-> "error" \notin DOMAIN result, intent |-> intent,
     result |-> result, timestamp |-> "now"]

\* The two envelopes process_command builds; datetime.now().isoformat() is
\* the one timestamp "now".
SuccessEnvelope(intent, result) ==
    [success |-> TRUE, intent |-> intent, result |-> result,
     timestamp |-> "now"]
FailureEnvelope(err) ==
    [success |-> FALSE, error |-> err, timestamp |-> "now"]

\* What one process_command left behind: how it ended, the envelope it
\* returned, the remote calls made in order, what _analyze_intent returned
\* (classified: it returned at all) and the handler dispatch chose.
Ended(kind, envelope, calls, classified, intent, handler, inp, a) ==
    [outcome |-> [kind |-> kind, envelope |-> envelope, calls |-> calls,
                  classified |-> classified, intent |-> intent,
                  handler |-> handler, inp |-> inp],
     a |-> a]

\* process_command without its try/except: what is raised escapes.
ProcessCommandUnguarded(a, inp) ==
    LET Executed(an, ex) ==
            IF ex.raised
            THEN Ended("raised", FailureEnvelope(ex.err),
                       an.calls \o ex.calls, TRUE, an.intent, ex.handler,
                       inp, ex.a)
            ELSE Ended("returned", SuccessEnvelope(an.intent.map, ex.result),
                       an.calls \o ex.calls, TRUE, an.intent, ex.handler,
                       inp, ex.a)
        Analyzed(an) ==
            IF an.raised
            THEN Ended("raised", FailureEnvelope(an.err), an.calls, FALSE,
                       an.intent, "none", inp, an.a)
            ELSE Executed(an, ExecuteAction(an.intent, an.a, inp))
    IN  Analyzed(AnalyzeIntent(a, inp))

\* AIAssistant.process_command(user_input, context)
ProcessCommandOutcome(a, inp) ==
    LET Executed(an, ex) ==
            IF ex.raised
            THEN Ended("returned", FailureEnvelope(ex.err),
                       an.calls \o ex.calls, TRUE, an.intent, ex.handler,
                       inp, ex.a)
            ELSE Ended("returned", SuccessEnvelope(an.intent.map, ex.result),
                       an.calls \o ex.calls, TRUE, an.intent, ex.handler,
                       inp, ex.a)
        Analyzed(an) ==
            IF an.raised
            THEN Ended("returned", FailureEnvelope(an.err), an.calls, FALSE,
                       an.intent, "none", inp, an.a)
            ELSE Executed(an, ExecuteAction(an.intent, an.a, inp))
    IN  Analyzed(AnalyzeIntent(a, inp))

----------------------------------------------------------------------------
(* The command pipeline as a state machine *)

Remote(i) == [at |-> i, how |-> "remote"]

\* What can go wrong after a reply was parsed, by the reply: any of the
\* adapter calls the reply leads to may fail; the task a sync fetched may
\* lack the field the issue is built from; an editor subprocess may end
\* with a non-zero code.
Faults(text) ==
    LET j == JsonLoads(text)
        p == IF j.kind = "dict" THEN DictGet(j.map, "platform") ELSE None
        act == IF j.kind = "dict" THEN DictGet(j.map, "action") ELSE None
    IN  CASE p = "multi" /\ act = "sync_task_to_issue" ->
                {NoFail, Remote(1), Remote(2), Remote(3),
                 [at |-> 2, how |-> "local"]}
          [] p = "multi" /\ act = "sync_issue_to_task" ->
                {NoFail, Remote(1), Remote(2), Remote(3)}
          [] p = "vscode" ->
                {NoFail, Remote(1), [at |-> 1, how |-> "false"]}
          [] OTHER -> {NoFail, Remote(1)}

\* The parameters object of a reply: the entries the sync flows read.
ReplyParams ==
    ("task_gid" :> "T1") @@ ("repo_name" :> "repoA") @@
    ("issue_number" :> 7) @@ ("project_gid" :> "P1")

\* The number the code host gives an issue created by a command.
FreshNumber == 101

\* The open issues the code host lists: with the issue asked for, or with
\* another one only.  They matter to sync_issue_to_task only.
OpenLists(text) ==
    LET j == JsonLoads(text)
    IN  IF /\ j.kind = "dict"
           /\ DictGet(j.map, "platform") = "multi"
           /\ DictGet(j.map, "action") = "sync_issue_to_task"
        THEN {<<Issue("repoA", 8), Issue("repoA", 7)>>,
              <<Issue("repoA", 8)>>}
        ELSE {<<>>}

\* What one command meets: the completion call fails, or returns one of
\* the reply texts and the calls that follow succeed or fail.
CommandInputs ==
    { [text |-> <<>>, llmok |-> FALSE, fail |-> NoFail, open |-> <<>>] }
    \cup
    UNION { { [text |-> text, llmok |-> TRUE, fail |-> f, open |-> o] :
                f \in Faults(text), o \in OpenLists(text) }
            : text \in ReplyTexts }

\* One command, from the call of process_command to its return.  sdk is
\* how the vault SDK behaves if this command is the first to resolve a
\* secret.
ProcessCommand(c, sdk) ==
    LET inp == [text |-> c.text, llmok |-> c.llmok, fail |-> c.fail,
                open |-> c.open, params |-> ReplyParams,
                fresh |-> FreshNumber, sdk |-> sdk]
        a0 == [openai |-> openai_initialized, asana |-> asana_initialized,
               github |-> github_initialized, clients |-> adapter_client,
               R |-> ResolverState]
    IN  \E o \in {ProcessCommandOutcome(a0, inp)} :
            /\ outcome' = o.outcome
            /\ openai_initialized' = o.a.openai
            /\ asana_initialized' = o.a.asana
            /\ github_initialized' = o.a.github
            /\ adapter_client' = o.a.clients
            /\ settings_initialized' = o.a.R.inited
            /\ key_vault_client' = o.a.R.kvc
            /\ client' = o.a.R.cl
            /\ secrets_cache' = o.a.R.cache
            /\ UNCHANGED <<environ, vault, vaultUp, use_key_vault,
                           azure_key_vault_url, key_vault_secret_prefix, last,
                           syncVars, concurrentVars>>

\* A fresh process: the vault is disabled and the credentials come from the
\* environment, some of them set, or a configured vault holds all three.
InitCmd ==
    /\ \E cfg \in {<<FALSE, None, {}>>,
                    <<FALSE, None, {OPENAI_API_KEY}>>,
                    <<FALSE, None, {OPENAI_API_KEY, ASANA_ACCESS_TOKEN}>>,
                    <<FALSE, None, {OPENAI_API_KEY, GITHUB_TOKEN}>>,
                    <<FALSE, None, {OPENAI_API_KEY, ASANA_ACCESS_TOKEN,
                                    GITHUB_TOKEN}>>,
                    <<TRUE, "url", {}>>} :
           /\ use_key_vault = cfg[1]
           /\ azure_key_vault_url = cfg[2]
           /\ environ = EnvOver(cfg[3])
           /\ vault = IF cfg[1]
                      THEN [n \in {OpenaiApiKey, AsanaAccessToken,
                                   GithubToken} |-> "v1"]
                      ELSE EmptyMap
    /\ vaultUp = TRUE
    /\ key_vault_secret_prefix = NoPrefix
    /\ settings_initialized = FALSE
    /\ key_vault_client = None
    /\ client = None
    /\ secrets_cache = EmptyMap
    /\ last = NoOp
    /\ assistantIdle

NextCmd == \E c \in CommandInputs, sdk \in SdkChoices : ProcessCommand(c, sdk)

SpecCmd == InitCmd /\ [][NextCmd]_vars

----------------------------------------------------------------------------
(* Claims about the command pipeline, checked under SpecCmd *)

\* The classification call, made and answered.
Classified == Made(Call("llm", "classify"), TRUE)

\* A command has run and _analyze_intent returned a value.
ReplyParsed == outcome.kind # "none" /\ outcome.classified

\* The reply is one JSON object.
WellFormedReply(text) ==
    /\ Len(text) >= 2
    /\ text[1].t = "{"
    /\ text[Len(text)].t = "}"
    /\ \A i \in 2..(Len(text) - 1) : text[i].t = "member"

\* The reply is some JSON value.
ParseableReply(text) ==
    \/ WellFormedReply(text)
    \/ Len(text) = 2 /\ text[1].t = "[" /\ text[2].t = "]"
    \/ Len(text) = 1 /\ text[1].t \in {"string", "null"}

ReplyKeys(text) == {text[i].k : i \in 2..(Len(text) - 1)}

\* The value the reply gives key k, None when it has no such member.
ReplyValue(text, k) ==
    IF k \in ReplyKeys(text)
    THEN text[CHOOSE i \in 2..(Len(text) - 1) :
                  /\ text[i].k = k
                  /\ \A j \in (i + 1)..(Len(text) - 1) : text[j].k # k].v
    ELSE None

\* The reply of the last command is an object naming platform p.
ReplyPlatform == ReplyValue(outcome.inp.text, "platform")
ReplyAction   == ReplyValue(outcome.inp.text, "action")
ObjectClassified ==
    /\ ReplyParsed
    /\ outcome.inp.llmok
    /\ WellFormedReply(outcome.inp.text)

AdapterCalls ==
    {i \in 1..Len(outcome.calls) :
        outcome.calls[i].adapter \in {"asana", "github", "vscode"}}
ChatCalls ==
    {i \in 1..Len(outcome.calls) : outcome.calls[i].op = "chat"}

\* C1: process_command never lets an exception escape: whatever the reply,
\* the credentials and the failures of the calls it makes, it returns one
\* envelope, with exactly the keys success, intent, result, timestamp and
\* success true, or exactly success, error, timestamp and success false.
C1_AlwaysOneEnvelope ==
    outcome.kind # "none" =>
        /\ outcome.kind = "returned"
        /\ \/ /\ DOMAIN outcome.envelope
                    = {"success", "intent", "result", "timestamp"}
              /\ outcome.envelope.success = TRUE
           \/ /\ DOMAIN outcome.envelope = {"success", "error", "timestamp"}
              /\ outcome.envelope.success = FALSE

\* A command that failed before any call was made: the language-model key
\* could not be resolved.
C1_Witness ==
    /\ outcome.kind = "returned"
    /\ outcome.calls = <<>>
    /\ ~outcome.envelope.success

\* The actions each platform handler matches.
RecognisedActions(p) ==
    CASE p = "asana"  -> {"create_task", "create_new_task", "get_tasks",
                          "update_task", "search_tasks"}
      [] p = "github" -> {"create_issue", "get_issues", "create_pr",
                          "get_repositories"}
      [] p = "vscode" -> {"open_project", "setup_project", "create_task",
                          "install_extension"}
      [] p = "multi"  -> {"sync_task_to_issue", "sync_issue_to_task"}

\* The message for an unrecognised action, with the platform's name as the
\* program writes it.
UnknownActionMessage(p, action) ==
    CASE p = "asana"  -> <<"Unknown Asana action: ", action>>
      [] p = "github" -> <<"Unknown GitHub action: ", action>>
      [] p = "vscode" -> <<"Unknown VSCode action: ", action>>
      [] p = "multi"  -> <<"Unknown multi-platform action: ", action>>

UnknownActionCase ==
    /\ ObjectClassified
    /\ ReplyPlatform \in KnownPlatforms
    /\ ReplyAction \notin RecognisedActions(ReplyPlatform)

\* C2: for a known platform and an action its handler does not recognise,
\* no adapter call is made and the result is the soft error
\* {error: "Unknown <platform> action: <action>"} in a success:true envelope.
C2_UnknownActionSoftError ==
    UnknownActionCase =>
        /\ AdapterCalls = {}
        /\ outcome.calls = <<Classified>>
        /\ outcome.kind = "returned"
        /\ outcome.envelope.success
        /\ DOMAIN outcome.envelope.result = {"error"}
        /\ outcome.envelope.result["error"]
               = UnknownActionMessage(ReplyPlatform, ReplyAction)

\* The reply names the task tracker and no action at all.
C2_Witness ==
    /\ UnknownActionCase
    /\ ReplyPlatform = "asana"
    /\ ReplyAction = None
    /\ outcome.envelope.success

\* C3: process_command returns success:false only when classification
\* failed: whenever _analyze_intent returned the parsed reply, the envelope
\* has success:true and failures are soft errors inside it.
C3_FailureOnlyFromClassification ==
    ReplyParsed => outcome.envelope.success

\* C4: a reply that is not parseable makes classification fail, the error
\* is returned with success:false and nothing is dispatched: the only call
\* made is the classification call.  A well-formed reply is returned as the
\* intent with exactly its keys and, for each key, its value.
C4_ClassifyParsesOrFails ==
    (outcome.kind # "none" /\ outcome.inp.llmok /\ outcome.calls # <<>>) =>
        /\ ~ParseableReply(outcome.inp.text) =>
              /\ ~outcome.classified
              /\ outcome.kind = "returned"
              /\ ~outcome.envelope.success
              /\ outcome.calls = <<Classified>>
              /\ outcome.handler = "none"
        /\ WellFormedReply(outcome.inp.text) =>
              /\ outcome.classified
              /\ outcome.intent.kind = "dict"
              /\ DOMAIN outcome.intent.map = ReplyKeys(outcome.inp.text)
              /\ \A k \in ReplyKeys(outcome.inp.text) :
                    outcome.intent.map[k] = ReplyValue(outcome.inp.text, k)
              /\ outcome.envelope.success
              /\ outcome.envelope.intent = outcome.intent.map

\* A well-formed reply that gives one key twice has been classified.
C4_Witness ==
    /\ ObjectClassified
    /\ Cardinality(ReplyKeys(outcome.inp.text)) < Len(outcome.inp.text) - 2

\* C5: an intent whose platform is none of asana, github, vscode, multi
\* goes to the conversational fallback, which asks the model exactly once,
\* and no adapter is called.
C5_UnknownPlatformFallsBack ==
    (ObjectClassified /\ ReplyPlatform \notin KnownPlatforms) =>
        /\ Cardinality(ChatCalls) = 1
        /\ AdapterCalls = {}
        /\ outcome.handler = "fallback"

\* The reply names no platform and the one completion call of the fallback
\* failed.
C5_Witness ==
    /\ ObjectClassified
    /\ ReplyPlatform = None
    /\ ChatCalls # {}
    /\ \E i \in ChatCalls : ~outcome.calls[i].ok


----------------------------------------------------------------------------
(* The sync endpoints and the records their calls leave at the services *)

\* The most records the sync requests may leave before the model stops
\* serving them.
MaxRecords == 2

\* int(s) of a source id: a ValueError unless s is a number.
IsInt(s) == s \in {"7", "99"}
IntOf(s) == CASE s = "7" -> 7 [] s = "99" -> 99

\* additional_params as a request carries it: an object naming the
\* repository and the project, an empty object, or null.
ExtraParams(extra) ==
    CASE extra = "object" -> ("repo_name" :> "repoA") @@ ("project_gid" :> "P1")
      [] extra = "empty"  -> EmptyMap

\* A selection that takes every pair but (github, asana) for a task sync.
SyncActionDefaulting(req) ==
    IF req.source_platform = "github" /\ req.target_platform = "asana"
    THEN "sync_issue_to_task"
    ELSE "sync_task_to_issue"

\* The flow the (source, target) pair of a request selects.
SyncAction(req) ==
    CASE req.source_platform = "asana" /\ req.target_platform = "github" ->
             "sync_task_to_issue"
      [] req.source_platform = "github" /\ req.target_platform = "asana" ->
             "sync_issue_to_task"
      [] OTHER -> "unsupported"

\* {"task_gid": source_id, **additional_params} and
\* {"issue_number": int(source_id), **additional_params}
SyncParameters(req) ==
    ExtraParams(req.extra) @@
        (IF SyncAction(req) = "sync_task_to_issue"
         THEN ("task_gid" :> req.source_id)
         ELSE ("issue_number" :> IntOf(req.source_id)))

\* Building the parameters raises: int() of a source id that is no number,
\* ** of additional_params that is None.
ParametersRaise(req) ==
    IF SyncAction(req) = "sync_issue_to_task" /\ ~IsInt(req.source_id)
    THEN "ValueError"
    ELSE IF req.extra = "null" THEN "TypeError" ELSE "none"

\* The handler called with the parameters of the request.
SyncHandled(req, a, inp) ==
    HandleMultiPlatformAction(SyncAction(req), "object", a,
                              [inp EXCEPT !.params = SyncParameters(req)])

NotSupported(req) ==
    <<"Sync from ", req.source_platform, " to ", req.target_platform,
      " not supported">>

\* sync_platforms of the function app: the HTTP status and body it
\* answers with, and the adapter calls made.
FunctionSyncOutcome(req, a, inp) ==
    LET Error(status, msg) ==
            [status |-> status, body |-> ("error" :> msg), calls |-> <<>>,
             a |-> a]
        Answer(h) ==
            [status |-> 200, body |-> h.result, calls |-> h.calls, a |-> h.a]
    IN  IF ~(/\ Truthy(req.source_platform)
             /\ Truthy(req.target_platform)
             /\ Truthy(req.source_id))
        THEN Error(400, <<"Missing required parameters">>)
        ELSE IF SyncAction(req) = "unsupported"
        THEN Error(400, NotSupported(req))
        ELSE IF ParametersRaise(req) # "none"
        THEN Error(500, <<ParametersRaise(req)>>)
        ELSE Answer(SyncHandled(req, a, inp))

\* sync_platforms of the API: its HTTPException for an unsupported pair is
\* raised inside the try block, whose except clause answers 500.
ApiSyncOutcome(req, a, inp) ==
    LET Error(status, msg) ==
            [status |-> status, body |-> ("detail" :> msg), calls |-> <<>>,
             a |-> a]
        Answer(h) ==
            [status |-> 200, body |-> h.result, calls |-> h.calls, a |-> h.a]
    IN  IF SyncAction(req) = "unsupported"
        THEN Error(500, NotSupported(req))
        ELSE IF ParametersRaise(req) # "none"
        THEN Error(500, <<ParametersRaise(req)>>)
        ELSE Answer(SyncHandled(req, a, inp))

\* The number the code host gives the next issue created.
NextNumber(r) == FreshNumber + Len(r.issues)

\* Services that refuse to create a second record with the text of one
\* they hold.
ApplyOnce(r, c) ==
    IF ~c.ok
    THEN r
    ELSE CASE c.op = "create_issue" ->
                  IF \E i \in 1..Len(r.issues) : r.issues[i].body = c.args.text
                  THEN r
                  ELSE [r EXCEPT !.issues =
                           Append(@, [repo |-> c.args.on[1],
                                      number |-> NextNumber(r),
                                      title |-> c.args.title,
                                      body |-> c.args.text,
                                      labels |-> c.args.labels])]
           [] c.op = "add_comment_to_task" ->
                  [r EXCEPT !.task_comments =
                      Append(@, [task |-> c.args.on[1],
                                 text |-> c.args.text])]
           [] c.op = "create_task" ->
                  IF \E i \in 1..Len(r.tasks) : r.tasks[i].notes = c.args.text
                  THEN r
                  ELSE [r EXCEPT !.tasks =
                           Append(@, [project |-> c.args.on[1],
                                      name |-> c.args.title,
                                      notes |-> c.args.text])]
           [] c.op = "add_comment_to_issue" ->
                  [r EXCEPT !.issue_comments =
                      Append(@, [repo |-> c.args.on[1],
                                 number |-> c.args.on[3],
                                 text |-> c.args.text])]
           [] OTHER -> r

\* What one adapter call leaves at its service: a call that raised leaves
\* nothing, a lookup leaves nothing.
Apply(r, c) ==
    IF ~c.ok
    THEN r
    ELSE CASE c.op = "create_issue" ->
                  [r EXCEPT !.issues =
                      Append(@, [repo |-> c.args.on[1],
                                 number |-> NextNumber(r),
                                 title |-> c.args.title,
                                 body |-> c.args.text,
                                 labels |-> c.args.labels])]
           [] c.op = "add_comment_to_task" ->
                  [r EXCEPT !.task_comments =
                      Append(@, [task |-> c.args.on[1],
                                 text |-> c.args.text])]
           [] c.op = "create_task" ->
                  [r EXCEPT !.tasks =
                      Append(@, [project |-> c.args.on[1],
                                 name |-> c.args.title,
                                 notes |-> c.args.text])]
           [] c.op = "add_comment_to_issue" ->
                  [r EXCEPT !.issue_comments =
                      Append(@, [repo |-> c.args.on[1],
                                 number |-> c.args.on[3],
                                 text |-> c.args.text])]
           [] OTHER -> r

\* Services that keep what a request's calls left only if all of them
\* succeeded.
ApplyCallsAtomic(r, calls) ==
    IF \E i \in 1..Len(calls) : ~calls[i].ok
    THEN r
    ELSE LET Step[i \in 0..Len(calls)] ==
                 IF i = 0 THEN r ELSE Apply(Step[i - 1], calls[i])
         IN  Step[Len(calls)]

RECURSIVE ApplyCalls(_, _)
ApplyCalls(r, calls) ==
    IF calls = <<>>
    THEN r
    ELSE ApplyCalls(Apply(r, Head(calls)), Tail(calls))

SyncRequest(source, target, id, extra) ==
    [source_platform |-> source, target_platform |-> target,
     source_id |-> id, extra |-> extra]

SyncInput(req, fail, open) == [req |-> req, fail |-> fail, open |-> open]

\* The requests served and what each meets: any adapter call of a flow may
\* fail, the task fetched may lack its name, the issue asked for may be
\* open or not, the source id may be empty or no number, the pair may be
\* unsupported.
SyncInputs ==
    { SyncInput(SyncRequest("asana", "github", "T1", "object"), f, <<>>) :
        f \in {NoFail, Remote(1), Remote(2), Remote(3),
               [at |-> 2, how |-> "local"]} }
    \cup
    { SyncInput(SyncRequest("asana", "github", id, e), NoFail, <<>>) :
        id \in {"T1", ""}, e \in {"null", "empty"} }
    \cup
    { SyncInput(SyncRequest("github", "asana", "7", "object"), f, o) :
        f \in {NoFail, Remote(1), Remote(2), Remote(3)},
        o \in {<<Issue("repoA", 8), Issue("repoA", 7)>>,
               <<Issue("repoA", 8)>>} }
    \cup
    { SyncInput(SyncRequest("github", "asana", id, "object"), NoFail,
                <<Issue("repoA", 8), Issue("repoA", 7)>>) :
        id \in {"99", "x"} }
    \cup
    { SyncInput(SyncRequest(pair[1], pair[2], "T1", "object"), NoFail, <<>>) :
        pair \in {<<"vscode", "github">>, <<"asana", "asana">>,
                  <<"github", "vscode">>, <<"", "asana">>} }

\* One sync request served by host: its answer observed, the adapters and
\* the resolver as its calls left them, the records as its calls left them.
Served(host, c, o) ==
    /\ response' = [kind |-> "sync", host |-> host, req |-> c.req,
                    fail |-> c.fail, open |-> c.open, status |-> o.status,
                    body |-> o.body, calls |-> o.calls]
    /\ remote' = ApplyCalls(remote, o.calls)
    /\ asana_initialized' = o.a.asana
    /\ github_initialized' = o.a.github
    /\ adapter_client' = o.a.clients
    /\ settings_initialized' = o.a.R.inited
    /\ key_vault_client' = o.a.R.kvc
    /\ client' = o.a.R.cl
    /\ secrets_cache' = o.a.R.cache
    /\ UNCHANGED <<environ, vault, vaultUp, use_key_vault,
                   azure_key_vault_url, key_vault_secret_prefix, last,
                   openai_initialized, outcome, concurrentVars>>

SyncInp(c, sdk) ==
    [fail |-> c.fail, open |-> c.open, params |-> EmptyMap,
     fresh |-> NextNumber(remote), sdk |-> sdk]

AssistantState ==
    [openai |-> openai_initialized, asana |-> asana_initialized,
     github |-> github_initialized, clients |-> adapter_client,
     R |-> ResolverState]

\* POST /sync of the function app
FunctionSyncPlatforms(c, sdk) ==
    /\ Len(remote.issues) + Len(remote.tasks) < MaxRecords
    /\ \E o \in {FunctionSyncOutcome(c.req, AssistantState, SyncInp(c, sdk))} :
           Served("function", c, o)

\* POST /sync of the API
ApiSyncPlatforms(c, sdk) ==
    /\ Len(remote.issues) + Len(remote.tasks) < MaxRecords
    /\ \E o \in {ApiSyncOutcome(c.req, AssistantState, SyncInp(c, sdk))} :
           Served("api", c, o)

\* A fresh process: the vault is disabled and the two tokens come from the
\* environment, one of them possibly unset, or a configured vault holds
\* them.
InitSync ==
    /\ \E cfg \in {<<FALSE, None, {ASANA_ACCESS_TOKEN, GITHUB_TOKEN}>>,
                    <<FALSE, None, {GITHUB_TOKEN}>>,
                    <<FALSE, None, {ASANA_ACCESS_TOKEN}>>,
                    <<TRUE, "url", {}>>} :
           /\ use_key_vault = cfg[1]
           /\ azure_key_vault_url = cfg[2]
           /\ environ = EnvOver(cfg[3])
           /\ vault = IF cfg[1]
                      THEN [n \in {AsanaAccessToken, GithubToken} |-> "v1"]
                      ELSE EmptyMap
    /\ vaultUp = TRUE
    /\ key_vault_secret_prefix = NoPrefix
    /\ settings_initialized = FALSE
    /\ key_vault_client = None
    /\ client = None
    /\ secrets_cache = EmptyMap
    /\ last = NoOp
    /\ assistantIdle

NextSync ==
    \/ \E c \in SyncInputs, sdk \in SdkChoices : FunctionSyncPlatforms(c, sdk)
    \/ \E c \in SyncInputs, sdk \in SdkChoices : ApiSyncPlatforms(c, sdk)

SpecSync == InitSync /\ [][NextSync]_vars

----------------------------------------------------------------------------
(* Claims about the sync flows *)


\* The last request was served by a flow, not rejected.
FlowRan(action) ==
    /\ response.kind = "sync"
    /\ response.status = 200
    /\ SyncAction(response.req) = action

\* Every adapter method the flow awaited returned: both tokens resolved, no
\* call failed, the task fetched had its name.
EveryCallSucceeded ==
    /\ response.fail = NoFail
    /\ asana_initialized
    /\ github_initialized

\* The repository the last request named, None when it named none.
RequestRepo == DictGet(ExtraParams(response.req.extra), "repo_name")

\* The text holds the piece.
Contains(text, piece) == \E i \in 1..Len(text) : text[i] = piece

\* The sequence grew by exactly one record, at its end.
OneMore(before, after) ==
    /\ Len(after) = Len(before) + 1
    /\ SubSeq(after, 1, Len(before)) = before

\* C13: a sync_task_to_issue(taskId, repo) run in which every adapter call
\* succeeds creates exactly one issue, in repo, whose body contains taskId
\* and which carries the label asana-sync, and posts exactly one comment,
\* on task taskId, containing the URL of the issue created; it creates no
\* task and comments on no issue.
C13_TaskSyncedToOneIssue ==
    [][ (FlowRan("sync_task_to_issue")' /\ EveryCallSucceeded') =>
            /\ OneMore(remote.issues, remote'.issues)
            /\ OneMore(remote.task_comments, remote'.task_comments)
            /\ remote'.tasks = remote.tasks
            /\ remote'.issue_comments = remote.issue_comments
            /\ LET issue == remote'.issues[Len(remote'.issues)]
                   comment ==
                       remote'.task_comments[Len(remote'.task_comments)]
               IN  /\ issue.repo = RequestRepo'
                   /\ Contains(issue.body, <<response'.req.source_id>>)
                   /\ \E i \in 1..Len(issue.labels) :
                          issue.labels[i] = "asana-sync"
                   /\ comment.task = response'.req.source_id
                   /\ Contains(comment.text,
                               HtmlUrl(issue.repo, issue.number))
            /\ DOMAIN response'.body
                   = {"action", "asana_task", "github_issue"}
      ]_vars

\* Task T1 was synced twice to repoA: two issues, two comments.
C13_Witness ==
    /\ FlowRan("sync_task_to_issue")
    /\ EveryCallSucceeded
    /\ response.req.source_id = "T1"
    /\ RequestRepo = "repoA"
    /\ Len(remote.issues) = 2
    /\ Len(remote.task_comments) = 2


\* The number the last request asked for.
RequestNumber == IntOf(response.req.source_id)

\* The code host listed its open issues, and none has the number asked for.
IssueNotListed ==
    /\ FlowRan("sync_issue_to_task")
    /\ github_initialized
    /\ response.fail # Remote(1)
    /\ \A i \in 1..Len(response.open) :
           response.open[i].number # RequestNumber

\* C14: sync_issue_to_task(n, repo, project), when the open issues the code
\* host lists for repo hold no issue numbered n, returns exactly
\* {"error": "Issue not found"}; the lookup is the only adapter call it
\* makes, so no task is created and no issue is commented on.
C14_IssueNotFound ==
    [][ IssueNotListed' =>
            /\ DOMAIN response'.body = {"error"}
            /\ response'.body["error"] = <<"Issue not found">>
            /\ response'.calls = <<Made(IssueLookup(
                   [params |-> ("repo_name" :> RequestRepo')]), TRUE)>>
            /\ \A i \in 1..Len(response'.calls) :
                   response'.calls[i].op
                       \notin {"create_task", "add_comment_to_issue"}
            /\ remote' = remote
      ]_vars

\* Issue 99 was asked for while issues 8 and 7 were open.
C14_Witness ==
    /\ IssueNotListed
    /\ RequestNumber = 99
    /\ Len(response.open) = 2
    /\ DOMAIN response.body = {"error"}


\* The last request named a pair that is neither (asana, github) nor
\* (github, asana).
Unsupported ==
    /\ response.kind = "sync"
    /\ ~(/\ response.req.source_platform = "asana"
         /\ response.req.target_platform = "github")
    /\ ~(/\ response.req.source_platform = "github"
         /\ response.req.target_platform = "asana")

\* C15: a sync request whose (source, target) pair is neither
\* (asana, github) nor (github, asana) is answered with an error status and
\* no adapter call is made for it: no record appears at either service, no
\* adapter is initialized and no credential is resolved.
C15_UnsupportedPairRejected ==
    [][ Unsupported' =>
            /\ response'.status \in {400, 500}
            /\ DOMAIN response'.body \in {{"error"}, {"detail"}}
            /\ response'.calls = <<>>
            /\ UNCHANGED <<remote, asana_initialized, github_initialized,
                           settings_initialized, secrets_cache>>
      ]_vars

\* A sync from the editor to the code host was refused.
C15_Witness ==
    /\ Unsupported
    /\ response.req.source_platform = "vscode"
    /\ response.req.target_platform = "github"
    /\ response.status # 200
    /\ response.calls = <<>>


\* The adapter methods of a flow, in the order the handler awaits them:
\* the source lookup, the target creation, the back-reference comment.
FlowOps(action) ==
    IF action = "sync_task_to_issue"
    THEN <<"get_task_by_gid", "create_issue", "add_comment_to_task">>
    ELSE <<"get_issues", "create_task", "add_comment_to_issue">>

\* The last request named one of the two supported pairs.
SupportedRequest ==
    /\ response.kind = "sync"
    /\ SyncAction(response.req) # "unsupported"

\* C16: the remote calls of one sync request are made in the order lookup,
\* creation, comment, each after the one before it returned: the calls
\* made are a prefix of that order and only the last of them may have
\* failed, so the creation is never attempted after a failed lookup and
\* the comment never after a failed creation; a comment appears at a
\* service only in a step that also created the target record.  This holds
\* for sync_task_to_issue and for sync_issue_to_task.
C16_CallsInOrder ==
    [][ SupportedRequest' =>
            LET ops == FlowOps(SyncAction(response'.req))
                calls == response'.calls
            IN  /\ Len(calls) <= 3
                /\ \A i \in 1..Len(calls) : calls[i].op = ops[i]
                /\ \A i \in 1..(Len(calls) - 1) : calls[i].ok
                /\ remote'.task_comments # remote.task_comments =>
                       OneMore(remote.issues, remote'.issues)
                /\ remote'.issue_comments # remote.issue_comments =>
                       OneMore(remote.tasks, remote'.tasks)
      ]_vars

\* An issue-to-task sync whose task creation failed: the lookup and the
\* creation were called, the comment was not.
C16_Witness ==
    /\ FlowRan("sync_issue_to_task")
    /\ Len(response.calls) = 2
    /\ response.calls[1].ok
    /\ response.calls[2].op = "create_task"
    /\ ~response.calls[2].ok


\* The last request looked its source up and created its target, and then
\* its comment call failed.
CommentFailed ==
    /\ SupportedRequest
    /\ Len(response.calls) = 3
    /\ response.calls[1].ok
    /\ response.calls[2].ok
    /\ ~response.calls[3].ok

IsPrefix(before, after) ==
    /\ Len(before) <= Len(after)
    /\ SubSeq(after, 1, Len(before)) = before

\* Some issue created by a sync has its URL in no comment on a task.
Unreferenced ==
    \E i \in 1..Len(remote.issues) :
        \A j \in 1..Len(remote.task_comments) :
            ~Contains(remote.task_comments[j].text,
                      HtmlUrl(remote.issues[i].repo,
                              remote.issues[i].number))

\* C17: no compensation on partial failure.  In both flows, a request whose
\* comment call fails after the target record was created leaves that
\* record in place and makes no further call: the failed comment is its
\* last call, the target record is there, no comment was recorded.  No
\* request ever removes or changes a record created earlier.
C17_NoCompensation ==
    [][ /\ IsPrefix(remote.issues, remote'.issues)
        /\ IsPrefix(remote.tasks, remote'.tasks)
        /\ CommentFailed' =>
               /\ \A i \in 1..3 :
                      response'.calls[i].op
                          = FlowOps(SyncAction(response'.req))[i]
               /\ remote'.task_comments = remote.task_comments
               /\ remote'.issue_comments = remote.issue_comments
               /\ IF SyncAction(response'.req) = "sync_task_to_issue"
                  THEN /\ OneMore(remote.issues, remote'.issues)
                       /\ remote'.tasks = remote.tasks
                  ELSE /\ OneMore(remote.tasks, remote'.tasks)
                       /\ remote'.issues = remote.issues
      ]_vars

\* The issue exists and task T1 carries no comment with its URL.
C17_Witness ==
    /\ CommentFailed
    /\ SyncAction(response.req) = "sync_task_to_issue"
    /\ Len(remote.issues) = 1
    /\ remote.task_comments = <<>>
    /\ Unreferenced


\* The last request ran its flow to the end: every adapter call
\* succeeded and, for sync_issue_to_task, the issue asked for was open.
Completed ==
    /\ SupportedRequest
    /\ response.status = 200
    /\ EveryCallSucceeded
    /\ SyncAction(response.req) = "sync_issue_to_task" =>
           \E i \in 1..Len(response.open) :
               response.open[i].number = RequestNumber

\* The issues in r whose body holds task id, the tasks in r whose notes
\* hold the URL of issue number of repo.
LinkedIssues(r, id) ==
    {i \in 1..Len(r.issues) : Contains(r.issues[i].body, <<id>>)}
LinkedTasks(r, repo, number) ==
    {i \in 1..Len(r.tasks) :
        Contains(r.tasks[i].notes, HtmlUrl(repo, number))}

\* The comments in r on task id, on issue number of repo.
TaskCommentsOn(r, id) ==
    {j \in 1..Len(r.task_comments) : r.task_comments[j].task = id}
IssueCommentsOn(r, repo, number) ==
    {j \in 1..Len(r.issue_comments) :
        /\ r.issue_comments[j].repo = repo
        /\ r.issue_comments[j].number = number}

\* The target records in r made from the source of request req, and the
\* back-reference comments in r on that source.
Targets(r, req) ==
    IF SyncAction(req) = "sync_task_to_issue"
    THEN LinkedIssues(r, req.source_id)
    ELSE LinkedTasks(r, DictGet(ExtraParams(req.extra), "repo_name"),
                     IntOf(req.source_id))
BackReferences(r, req) ==
    IF SyncAction(req) = "sync_task_to_issue"
    THEN TaskCommentsOn(r, req.source_id)
    ELSE IssueCommentsOn(r, DictGet(ExtraParams(req.extra), "repo_name"),
                         IntOf(req.source_id))

\* C19: neither flow is idempotent.  Every invocation that runs to its end
\* adds one target record made from its source and one back-reference
\* comment on its source, however many the services already hold for that
\* source, so k invocations with the same source id leave k of each; the
\* calls of an invocation are the lookup of the source, the creation and
\* the comment, and none of them looks for an earlier link.
C19_NotIdempotent ==
    [][ Completed' =>
            /\ Cardinality(Targets(remote', response'.req))
                   = Cardinality(Targets(remote, response'.req)) + 1
            /\ Cardinality(BackReferences(remote', response'.req))
                   = Cardinality(BackReferences(remote, response'.req)) + 1
            /\ Len(response'.calls) = 3
            /\ \A i \in 1..3 :
                   response'.calls[i].op
                       = FlowOps(SyncAction(response'.req))[i]
      ]_vars

\* Issue 7 of repoA was synced twice: two tasks made from it, two comments
\* on it.
C19_Witness ==
    /\ Completed
    /\ SyncAction(response.req) = "sync_issue_to_task"
    /\ Cardinality(Targets(remote, response.req)) = 2
    /\ Cardinality(BackReferences(remote, response.req)) = 2


----------------------------------------------------------------------------
(* Claims about a sync run as a command, checked under SpecCmd *)

\* The last command was a sync whose comment call failed after its lookup
\* and its creation had succeeded.
CommandCommentFailed ==
    /\ outcome.kind # "none"
    /\ outcome.handler = "multi"
    /\ Len(outcome.calls) = 4
    /\ outcome.calls[2].ok
    /\ outcome.calls[3].ok
    /\ outcome.calls[4].op \in {"add_comment_to_task", "add_comment_to_issue"}
    /\ ~outcome.calls[4].ok

\* The key under which a flow's result reports the record it created.
CreationKey(action) ==
    IF action = "sync_task_to_issue" THEN "github_issue" ELSE "asana_task"

\* C18 as stated: when the comment call fails after the creation, the sync
\* command still reports the creation as a success: its result carries no
\* error and names the record created.
C18_PartialFailureSilent ==
    CommandCommentFailed =>
        /\ outcome.envelope.success
        /\ "error" \notin DOMAIN outcome.envelope.result
        /\ CreationKey(ReplyAction) \in DOMAIN outcome.envelope.result

\* C18 as the code has it: when the comment call fails after the creation,
\* the envelope says success, and its result is the soft error
\* {"error": "Multi-platform action failed: ..."} alone: the failure is
\* reported in band, the record created is not reported at all.
C18_PartialFailureSoftError ==
    CommandCommentFailed =>
        /\ outcome.envelope.success
        /\ DOMAIN outcome.envelope.result = {"error"}
        /\ outcome.envelope.result["error"]
               = <<"Multi-platform action failed: ", "remote call failed">>
        /\ CreationKey(ReplyAction) \notin DOMAIN outcome.envelope.result

\* A task-to-issue command created its issue and failed to comment.
C18_Witness ==
    /\ CommandCommentFailed
    /\ ReplyAction = "sync_task_to_issue"
    /\ outcome.calls[3].op = "create_issue"
    /\ outcome.envelope.success


----------------------------------------------------------------------------
(* Concurrent first uses of an adapter *)

\* An _ensure_initialized that does not look at its flag.
AdapterInitializedIgnored(adapter) == FALSE

\* The secret an adapter resolves, the environment variable it falls back
\* to, and its _initialized flag.
TokenName(adapter) ==
    IF adapter = "asana" THEN AsanaAccessToken ELSE GithubToken
TokenVariable(adapter) ==
    IF adapter = "asana" THEN ASANA_ACCESS_TOKEN ELSE GITHUB_TOKEN
AdapterInitialized(adapter) ==
    IF adapter = "asana" THEN asana_initialized ELSE github_initialized

\* Whether get_secret reaches the await of run_in_executor: the Key Vault
\* client is available and its cache does not hold the name.  It is the
\* only place where _ensure_initialized hands control to the event loop;
\* every other await in it runs on without a switch.
Suspends(kvc, cl, cache, vname) ==
    IsAvailable(kvc, cl) /\ vname \notin DOMAIN cache

\* An _ensure_initialized that leaves a client alone once one is there.
EnsureFinishedKeepingFirst(t, adapter, token, clients) ==
    IF Truthy(token)
    THEN [at |-> At("done", adapter, TRUE), set |-> TRUE,
          clients |-> IF clients[adapter] = NoClient
                      THEN [clients EXCEPT ![adapter] = BuiltClient(token, t)]
                      ELSE clients]
    ELSE [at |-> At("raised", adapter, FALSE), set |-> FALSE,
          clients |-> clients]

\* The rest of _ensure_initialized once the token is resolved: it raises
\* without a token, else builds the client, stores it and sets
\* _initialized.
EnsureFinished(t, adapter, token, clients) ==
    IF Truthy(token)
    THEN [at |-> At("done", adapter, TRUE), set |-> TRUE,
          clients |-> [clients EXCEPT ![adapter] = BuiltClient(token, t)]]
    ELSE [at |-> At("raised", adapter, FALSE), set |-> FALSE,
          clients |-> clients]

\* What first use t leaves when it returns or raises.
Finished(t, adapter, f) ==
    /\ first_use' = [first_use EXCEPT ![t] = f.at]
    /\ adapter_client' = f.clients
    /\ asana_initialized' = (asana_initialized \/ (adapter = "asana" /\ f.set))
    /\ github_initialized' =
           (github_initialized \/ (adapter = "github" /\ f.set))

\* First use t calls _ensure_initialized of adapter and runs until it
\* returns, raises or is suspended in the vault read.
FirstUse(t, adapter, sdk) ==
    /\ first_use[t].at = "idle"
    /\ IF AdapterInitialized(adapter)
       THEN /\ first_use' =
                   [first_use EXCEPT ![t] = At("done", adapter, FALSE)]
            /\ UNCHANGED <<asana_initialized, github_initialized,
                           adapter_client, settings_initialized,
                           key_vault_client, client, secrets_cache>>
       ELSE \E i \in {Initialize(settings_initialized, use_key_vault,
                                 azure_key_vault_url, key_vault_client,
                                 client, sdk)} :
                /\ settings_initialized' = TRUE
                /\ key_vault_client' = i.key_vault_client
                /\ client' = i.client
                /\ IF Suspends(i.key_vault_client, i.client, secrets_cache,
                               key_vault_secret_prefix \o TokenName(adapter))
                   THEN /\ first_use' =
                               [first_use EXCEPT
                                   ![t] = At("reading", adapter, FALSE)]
                        /\ UNCHANGED <<asana_initialized, github_initialized,
                                       adapter_client, secrets_cache>>
                   ELSE \E g \in {SettingsGetSecret(
                                      i.key_vault_client, i.client,
                                      secrets_cache, key_vault_secret_prefix,
                                      TokenName(adapter),
                                      TokenVariable(adapter), vaultUp, vault,
                                      environ)} :
                            /\ secrets_cache' = g.cache
                            /\ Finished(t, adapter,
                                        EnsureFinished(t, adapter, g.ret,
                                                       adapter_client))
    /\ UNCHANGED <<environ, vault, vaultUp, use_key_vault,
                   azure_key_vault_url, key_vault_secret_prefix, last,
                   openai_initialized, outcome, syncVars, pending,
                   in_flight>>

\* The vault read of first use t returns or raises, and t runs on to the
\* end of _ensure_initialized.  It looked at the cache before the read and
\* does not look again: it caches what it read.
ReadReturns(t) ==
    /\ first_use[t].at = "reading"
    /\ \E g \in {SettingsGetSecret(key_vault_client, client, EmptyMap,
                                   key_vault_secret_prefix,
                                   TokenName(first_use[t].adapter),
                                   TokenVariable(first_use[t].adapter),
                                   vaultUp, vault, environ)} :
           /\ secrets_cache' = g.cache @@ secrets_cache
           /\ Finished(t, first_use[t].adapter,
                       EnsureFinished(t, first_use[t].adapter, g.ret,
                                      adapter_client))
    /\ UNCHANGED <<environ, vault, vaultUp, use_key_vault,
                   azure_key_vault_url, key_vault_secret_prefix, last,
                   settings_initialized, key_vault_client, client,
                   openai_initialized, outcome, syncVars, pending,
                   in_flight>>

\* A fresh process: a configured vault holds both tokens, with or without
\* the GitHub token also in the environment, or the vault is disabled and
\* the tokens come from the environment.
InitFirstUse ==
    /\ \E cfg \in {<<TRUE, "url", {}>>,
                    <<TRUE, "url", {GITHUB_TOKEN}>>,
                    <<FALSE, None, {ASANA_ACCESS_TOKEN, GITHUB_TOKEN}>>} :
           /\ use_key_vault = cfg[1]
           /\ azure_key_vault_url = cfg[2]
           /\ environ = EnvOver(cfg[3])
           /\ vault = IF cfg[1]
                      THEN [n \in {AsanaAccessToken, GithubToken} |-> "v1"]
                      ELSE EmptyMap
    /\ vaultUp = TRUE
    /\ key_vault_secret_prefix = NoPrefix
    /\ settings_initialized = FALSE
    /\ key_vault_client = None
    /\ client = None
    /\ secrets_cache = EmptyMap
    /\ last = NoOp
    /\ assistantIdle

NextFirstUse ==
    \/ \E t \in Uses, adapter \in {"asana", "github"}, sdk \in SdkChoices :
           FirstUse(t, adapter, sdk)
    \/ \E t \in Uses : ReadReturns(t)
    \/ VaultOutage
    \/ VaultRecovery

SpecFirstUse == InitFirstUse /\ [][NextFirstUse]_vars

\* C20: two concurrent first uses of one adapter can both find it not
\* initialized and both resolve the token and build a client.  Whenever a
\* suspended first use resumes with a token, it stores its own client over
\* whatever is there, so the later completion wins; and once any first use
\* has returned, the adapter is initialized and holds a client built with
\* a token.
C20_LaterFirstUseOverwrites ==
    [][ /\ \A t \in Uses :
               (first_use[t].at = "reading" /\ first_use'[t].at = "done") =>
                   /\ first_use'[t].constructed
                   /\ adapter_client'[first_use[t].adapter].by = t
        /\ \A t \in Uses :
               first_use'[t].at = "done" =>
                   /\ IF first_use'[t].adapter = "asana"
                      THEN asana_initialized'
                      ELSE github_initialized'
                   /\ Truthy(adapter_client'[first_use'[t].adapter].token)
      ]_vars

\* Both first uses of the code-host adapter found it not initialized and
\* built a client; t1 finished last, with the token it fell back to when
\* its vault read failed, and its client replaced the one t2 had built
\* with the token the vault holds.
C20_Witness ==
    /\ first_use["t1"] = At("done", "github", TRUE)
    /\ first_use["t2"] = At("done", "github", TRUE)
    /\ github_initialized
    /\ adapter_client["github"] = BuiltClient("env-github", "t1")
    /\ DictGet(secrets_cache, GithubToken) = "v1"

----------------------------------------------------------------------------
(* Concurrent calls of the resolver *)

\* The name the concurrent calls are about and the values they write.
RaceName == GithubToken
RaceValues == {"v2", "v3"}

\* What the SDK read left for the code after the await: the vault as the
\* read saw it, reduced to the one name read.
AnsweredVault(vname, answer) ==
    IF answer.ok THEN (vname :> answer.value) ELSE EmptyMap

\* Caller t returns from its call.
Returned(t, ret) ==
    pending' = [pending EXCEPT ![t].at = "done", ![t].ret = ret]

\* Caller t calls settings.get_secret(name) and runs until it returns or
\* is suspended in run_in_executor (azure_keyvault.py line 65).
GetCalled(t, name, sdk) ==
    /\ pending[t].at = "idle"
    /\ \E i \in {Initialize(settings_initialized, use_key_vault,
                            azure_key_vault_url, key_vault_client, client,
                            sdk)} :
           /\ settings_initialized' = TRUE
           /\ key_vault_client' = i.key_vault_client
           /\ client' = i.client
           /\ IF Suspends(i.key_vault_client, i.client, secrets_cache,
                          key_vault_secret_prefix \o name)
              THEN /\ pending' = [pending EXCEPT
                                     ![t] = Pending("awaiting", "get", name,
                                                    None, NoAnswer, 0, 0,
                                                    None)]
                   /\ UNCHANGED secrets_cache
              ELSE \E g \in {SettingsGetSecret(
                                 i.key_vault_client, i.client, secrets_cache,
                                 key_vault_secret_prefix, name, <<>>,
                                 vaultUp, vault, environ)} :
                       /\ secrets_cache' = g.cache
                       /\ pending' = [pending EXCEPT
                                         ![t] = Pending("done", "get", name,
                                                        None, NoAnswer, 0, 0,
                                                        g.ret)]
    /\ UNCHANGED <<environ, vault, vaultUp, use_key_vault,
                   azure_key_vault_url, key_vault_secret_prefix, last,
                   assistantVars, syncVars, first_use, in_flight>>

\* The executor thread runs client.get_secret(secret_name) for caller t.
SdkReads(t) ==
    /\ pending[t].at = "awaiting"
    /\ pending[t].op = "get"
    /\ pending' = [pending EXCEPT
                      ![t].at = "answered",
                      ![t].answer =
                          SdkGetSecret(vaultUp, vault,
                                       key_vault_secret_prefix
                                           \o pending[t].name),
                      ![t].reads = @ + 1]
    /\ UNCHANGED <<resolverVars, assistantVars, syncVars, first_use,
                   in_flight>>

\* Caller t resumes after its read: lines 70-80 of get_secret and the rest
\* of settings.get_secret.  It checked the cache before the read and does
\* not check again: it stores what its read returned.
GetResumes(t) ==
    /\ pending[t].at = "answered"
    /\ pending[t].op = "get"
    /\ \E g \in {SettingsGetSecret(
                     key_vault_client, client, EmptyMap,
                     key_vault_secret_prefix, pending[t].name, <<>>,
                     pending[t].answer.ok,
                     AnsweredVault(key_vault_secret_prefix \o pending[t].name,
                                   pending[t].answer),
                     environ)} :
           /\ secrets_cache' = g.cache @@ secrets_cache
           /\ Returned(t, g.ret)
    /\ UNCHANGED <<environ, vault, vaultUp, use_key_vault,
                   azure_key_vault_url, key_vault_secret_prefix,
                   settings_initialized, key_vault_client, client, last,
                   assistantVars, syncVars, first_use, in_flight>>

\* Caller t calls settings.set_secret(name, value) and runs until it
\* returns False without a client or is suspended in run_in_executor
\* (azure_keyvault.py line 90).
SetCalled(t, name, value, sdk) ==
    /\ pending[t].at = "idle"
    /\ \E i \in {Initialize(settings_initialized, use_key_vault,
                            azure_key_vault_url, key_vault_client, client,
                            sdk)} :
           /\ settings_initialized' = TRUE
           /\ key_vault_client' = i.key_vault_client
           /\ client' = i.client
           /\ pending' = [pending EXCEPT
                             ![t] = Pending(IF IsAvailable(i.key_vault_client,
                                                           i.client)
                                            THEN "awaiting" ELSE "done",
                                            "set", name, value, NoAnswer, 0,
                                            0, FALSE)]
    /\ UNCHANGED <<environ, vault, vaultUp, use_key_vault,
                   azure_key_vault_url, key_vault_secret_prefix,
                   secrets_cache, last, assistantVars, syncVars, first_use,
                   in_flight>>

\* The executor thread runs client.set_secret(secret_name, secret_value)
\* for caller t.
SdkWrites(t) ==
    /\ pending[t].at = "awaiting"
    /\ pending[t].op = "set"
    /\ vault' = IF vaultUp
                THEN DictSet(vault,
                             key_vault_secret_prefix \o pending[t].name,
                             pending[t].value)
                ELSE vault
    /\ pending' = [pending EXCEPT
                      ![t].at = "answered",
                      ![t].answer = [ok |-> vaultUp,
                                     value |-> pending[t].value],
                      ![t].writes = @ + 1]
    /\ UNCHANGED <<environ, vaultUp, use_key_vault, azure_key_vault_url,
                   key_vault_secret_prefix, settings_initialized,
                   key_vault_client, client, secrets_cache, last,
                   assistantVars, syncVars, first_use, in_flight>>

\* Caller t resumes after its write: lines 95-102 of set_secret.  The vault
\* was written when the SDK call ran; here only the cache is.
SetResumes(t) ==
    /\ pending[t].at = "answered"
    /\ pending[t].op = "set"
    /\ \E r \in {KVSetSecret(client, secrets_cache,
                             key_vault_secret_prefix \o pending[t].name,
                             pending[t].value, pending[t].answer.ok,
                             vault)} :
           /\ secrets_cache' = r.cache
           /\ Returned(t, r.ok)
    /\ UNCHANGED <<environ, vault, vaultUp, use_key_vault,
                   azure_key_vault_url, key_vault_secret_prefix,
                   settings_initialized, key_vault_client, client, last,
                   assistantVars, syncVars, first_use, in_flight>>

\* A fresh process with a configured vault that holds the name, with or
\* without the token also in the environment.
InitRace ==
    /\ environ \in {EnvOver({}), EnvOver({GITHUB_TOKEN})}
    /\ vault = (RaceName :> "v1")
    /\ vaultUp = TRUE
    /\ use_key_vault = TRUE
    /\ azure_key_vault_url = "url"
    /\ key_vault_secret_prefix = NoPrefix
    /\ settings_initialized = FALSE
    /\ key_vault_client = None
    /\ client = None
    /\ secrets_cache = EmptyMap
    /\ last = NoOp
    /\ assistantIdle

NextRace ==
    \/ \E t \in Callers, sdk \in SdkChoices : GetCalled(t, RaceName, sdk)
    \/ \E t \in Callers : SdkReads(t)
    \/ \E t \in Callers : GetResumes(t)
    \/ \E t \in Callers, v \in RaceValues, sdk \in SdkChoices :
           SetCalled(t, RaceName, v, sdk)
    \/ \E t \in Callers : SdkWrites(t)
    \/ \E t \in Callers : SetResumes(t)
    \/ VaultOutage
    \/ VaultRecovery

SpecRace == InitRace /\ [][NextRace]_vars

\* Both callers fetched RaceName, each found it uncached and went to the
\* vault, and both have returned.
BothFetched ==
    \A t \in Callers :
        /\ pending[t].op = "get"
        /\ pending[t].at = "done"
        /\ pending[t].reads = 1

\* C21: a fetch reads the vault at most once; and when two concurrent
\* first fetches of the same uncached secret have both returned, the cache
\* holds for the name the value every successful read returned, whichever
\* of them stored it last.
C21_ConcurrentFetchesConverge ==
    /\ \A t \in Callers : pending[t].reads <= 1
    /\ BothFetched =>
           \A t \in Callers :
               pending[t].answer.ok =>
                   /\ RaceName \in DOMAIN secrets_cache
                   /\ secrets_cache[RaceName] = pending[t].answer.value
                   /\ secrets_cache[RaceName] = vault[RaceName]

\* Both fetches found the name uncached, each read the vault once, both
\* stored what they read, and the cache holds that one value.
C21_Witness ==
    /\ BothFetched
    /\ \A t \in Callers : pending[t].answer.ok /\ pending[t].ret = "v1"
    /\ secrets_cache = (RaceName :> "v1")

----------------------------------------------------------------------------
(* Concurrent sync flows on one event loop *)

\* What flow s works with: the parameters of its request, the number the
\* code host gave the issue it created, the open issues listed.
FlowInp(s) ==
    [params |-> ReplyParams, fresh |-> in_flight[s].fresh,
     open |-> <<Issue("repoA", 7)>>]

\* The adapter methods flow s awaits, in order.
FlowPlan(s) ==
    IF in_flight[s].action = "sync_task_to_issue"
    THEN TaskToIssuePlan(FlowInp(s))
    ELSE IssueToTaskPlan(FlowInp(s), Issue("repoA", 7))

\* No other flow holds the event loop: a coroutine runs on until it awaits
\* something that is not ready.
LoopFree(s) == \A u \in Syncs \ {s} : in_flight[u].at # "running"

\* The remote call of an adapter method: the blocking SDK call made inside
\* the coroutine, after which the flow goes on to its next method or, after
\* its third, returns.
RemoteCall(s, c) ==
    /\ remote' = Apply(remote, Made(c, TRUE))
    /\ in_flight' =
           [in_flight EXCEPT
               ![s].at = IF in_flight[s].next = 3 THEN "ended" ELSE "running",
               ![s].next = @ + 1,
               ![s].fresh = IF c.op = "create_issue"
                            THEN NextNumber(remote) ELSE @,
               ![s].result = IF in_flight[s].next = 3
                             THEN "synced" ELSE "none"]

\* _handle_multi_platform_action is called for flow s.
SyncCalled(s, action) ==
    /\ in_flight[s].at = "idle"
    /\ LoopFree(s)
    /\ in_flight' = [in_flight EXCEPT
                        ![s] = Flow("running", action, 1, 0, "none")]
    /\ UNCHANGED <<resolverVars, assistantVars, syncVars, first_use,
                   pending>>

\* Flow s, holding the event loop, awaits its next adapter method: the
\* method's _ensure_initialized and, unless that is suspended in the vault
\* read or raises, its remote call.
MethodAwaited(s, sdk) ==
    LET c == FlowPlan(s)[in_flight[s].next]
    IN  /\ in_flight[s].at = "running"
        /\ IF AdapterInitialized(c.adapter)
           THEN /\ RemoteCall(s, c)
                /\ UNCHANGED <<asana_initialized, github_initialized,
                               adapter_client, settings_initialized,
                               key_vault_client, client, secrets_cache>>
           ELSE \E i \in {Initialize(settings_initialized, use_key_vault,
                                     azure_key_vault_url, key_vault_client,
                                     client, sdk)} :
                    /\ settings_initialized' = TRUE
                    /\ key_vault_client' = i.key_vault_client
                    /\ client' = i.client
                    /\ IF Suspends(i.key_vault_client, i.client,
                                   secrets_cache,
                                   key_vault_secret_prefix
                                       \o TokenName(c.adapter))
                       THEN /\ in_flight' =
                                   [in_flight EXCEPT ![s].at = "reading"]
                            /\ UNCHANGED <<asana_initialized,
                                           github_initialized, adapter_client,
                                           secrets_cache, remote>>
                       ELSE \E g \in {SettingsGetSecret(
                                          i.key_vault_client, i.client,
                                          secrets_cache,
                                          key_vault_secret_prefix,
                                          TokenName(c.adapter),
                                          TokenVariable(c.adapter), vaultUp,
                                          vault, environ)} :
                            \E f \in {EnsureFinished(s, c.adapter, g.ret,
                                                     adapter_client)} :
                                /\ secrets_cache' = g.cache
                                /\ adapter_client' = f.clients
                                /\ asana_initialized' =
                                       (asana_initialized
                                            \/ (c.adapter = "asana" /\ f.set))
                                /\ github_initialized' =
                                       (github_initialized
                                            \/ (c.adapter = "github" /\ f.set))
                                /\ IF f.set
                                   THEN RemoteCall(s, c)
                                   ELSE /\ in_flight' =
                                               [in_flight EXCEPT
                                                   ![s].at = "ended",
                                                   ![s].result = "error"]
                                        /\ UNCHANGED remote
        /\ UNCHANGED <<environ, vault, vaultUp, use_key_vault,
                       azure_key_vault_url, key_vault_secret_prefix, last,
                       openai_initialized, outcome, response, first_use,
                       pending>>

\* The vault read of flow s returns or raises once the event loop is free:
\* s takes the loop and finishes _ensure_initialized.
ReadCompleted(s) ==
    LET adapter == FlowPlan(s)[in_flight[s].next].adapter
    IN  /\ in_flight[s].at = "reading"
        /\ LoopFree(s)
        /\ \E g \in {SettingsGetSecret(key_vault_client, client, EmptyMap,
                                       key_vault_secret_prefix,
                                       TokenName(adapter),
                                       TokenVariable(adapter), vaultUp, vault,
                                       environ)} :
           \E f \in {EnsureFinished(s, adapter, g.ret, adapter_client)} :
               /\ secrets_cache' = g.cache @@ secrets_cache
               /\ adapter_client' = f.clients
               /\ asana_initialized' =
                      (asana_initialized \/ (adapter = "asana" /\ f.set))
               /\ github_initialized' =
                      (github_initialized \/ (adapter = "github" /\ f.set))
               /\ in_flight' =
                      [in_flight EXCEPT
                          ![s].at = IF f.set THEN "running" ELSE "ended",
                          ![s].result = IF f.set THEN "none" ELSE "error"]
        /\ UNCHANGED <<environ, vault, vaultUp, use_key_vault,
                       azure_key_vault_url, key_vault_secret_prefix, last,
                       settings_initialized, key_vault_client, client,
                       openai_initialized, outcome, syncVars, first_use,
                       pending>>

NextInFlight ==
    \/ \E s \in Syncs, action \in {"sync_task_to_issue", "sync_issue_to_task"} :
           SyncCalled(s, action)
    \/ \E s \in Syncs, sdk \in SdkChoices : MethodAwaited(s, sdk)
    \/ \E s \in Syncs : ReadCompleted(s)
    \/ VaultOutage
    \/ VaultRecovery

SpecInFlight == InitFirstUse /\ [][NextInFlight]_vars

\* Flow s created its target record and has not yet made its comment call.
BetweenCreationAndComment(s) ==
    in_flight[s].at = "running" /\ in_flight[s].next = 3

\* Flow u is in flight with an adapter method still to call.
CallOutstanding(u) == in_flight[u].at \in {"running", "reading"}

CreationAndCommentUninterrupted ==
    [][ \A s \in Syncs :
            BetweenCreationAndComment(s) =>
                /\ \A u \in Syncs \ {s} : in_flight'[u] = in_flight[u]
                /\ in_flight'[s] # in_flight[s] => in_flight'[s].at = "ended"
      ]_vars

----------------------------------------------------------------------------
(* Claims about the adapters' lifecycle, checked under SpecFirstUse *)

\* No use of an adapter is suspended: the uses follow one another.
Sequential == \A t \in Uses : first_use[t].at # "reading"

\* Use t calls _ensure_initialized of adapter in this step.
Calls(t, adapter) ==
    /\ first_use[t].at = "idle"
    /\ first_use'[t].at # "idle"
    /\ first_use'[t].adapter = adapter

\* C23: in sequential use an adapter's client is created at most once.
\* Once an adapter is initialized, it stays initialized and keeps the
\* client it holds, and a later use of it returns at once: it builds no
\* client and does not go to the resolver.
C23_ClientCreatedOnce ==
    [][ /\ (asana_initialized /\ Sequential) =>
               /\ asana_initialized'
               /\ adapter_client'["asana"] = adapter_client["asana"]
               /\ \A t \in Uses :
                      Calls(t, "asana") =>
                          /\ first_use'[t] = At("done", "asana", FALSE)
                          /\ UNCHANGED <<settings_initialized,
                                         key_vault_client, client,
                                         secrets_cache>>
        /\ (github_initialized /\ Sequential) =>
               /\ github_initialized'
               /\ adapter_client'["github"] = adapter_client["github"]
               /\ \A t \in Uses :
                      Calls(t, "github") =>
                          /\ first_use'[t] = At("done", "github", FALSE)
                          /\ UNCHANGED <<settings_initialized,
                                         key_vault_client, client,
                                         secrets_cache>>
      ]_vars

\* t1 initialized the code-host adapter; t2 used it afterwards and found
\* it initialized: the client is the one t1 built.
C23_Witness ==
    /\ first_use["t1"] = At("done", "github", TRUE)
    /\ first_use["t2"] = At("done", "github", FALSE)
    /\ github_initialized
    /\ adapter_client["github"] = BuiltClient("v1", "t1")

----------------------------------------------------------------------------
(* Dispatch and the classifier's confidence *)

\* The confidence a reply states: 0, a middling value, 1, or none.
Confidences == {"0", "0.5", "1", Absent}

\* One action of each platform, and a platform no handler serves.
DispatchedActions ==
    {<<"asana", "create_task">>, <<"github", "create_issue">>,
     <<"vscode", "open_project">>, <<"multi", "sync_task_to_issue">>,
     <<"multi", "bogus">>, <<"unknown", "create_task">>}

\* The commands whose replies differ in their confidence.
ConfidenceInputs ==
    { [text |-> ObjectReply(pa[1], pa[2], "object", c), llmok |-> TRUE,
       fail |-> f, open |-> <<>>] :
        pa \in DispatchedActions, c \in Confidences,
        f \in {NoFail, Remote(1)} }

\* The reply text with its confidence member replaced by c, or left out.
WithConfidence(text, c) ==
    LET Other(m) == ~(m.t = "member" /\ m.k = "confidence")
        rest == SelectSeq(SubSeq(text, 1, Len(text) - 1), Other)
    IN  rest \o Opt("confidence", c) \o <<text[Len(text)]>>

NextDispatch ==
    \E c \in ConfidenceInputs, sdk \in SdkChoices : ProcessCommand(c, sdk)

SpecDispatch == InitCmd /\ [][NextDispatch]_vars

\* What a command's caller gets besides the echoed intent: the result of a
\* success envelope, the error of a failure envelope.
Payload(envelope) ==
    IF envelope.success
    THEN <<"result", envelope.result>>
    ELSE <<"error", envelope.error>>

\* C24: dispatch does not look at the confidence.  Whatever command ran,
\* the same command with any other confidence in its reply, or with none,
\* run from the same state, ends with the same handler, the same calls in
\* the same order, the same result and the same adapters and resolver.
C24_ConfidenceIgnored ==
    [][ \A c \in Confidences :
            \E o \in {ProcessCommandOutcome(
                          AssistantState,
                          [outcome'.inp EXCEPT
                              !.text = WithConfidence(@, c)])} :
                /\ o.outcome.handler = outcome'.handler
                /\ o.outcome.calls = outcome'.calls
                /\ Payload(o.outcome.envelope) = Payload(outcome'.envelope)
                /\ o.a.clients = adapter_client'
                /\ o.a.R.cache = secrets_cache'
      ]_vars

\* A reply with confidence 0 named the code host's create_issue, and the
\* issue was created.
C24_Witness ==
    /\ outcome.kind = "returned"
    /\ ReplyValue(outcome.inp.text, "confidence") = "0"
    /\ outcome.handler = "github"
    /\ outcome.envelope.success
    /\ outcome.calls = <<Classified, Made(Call("github", "create_issue"), TRUE)>>

----------------------------------------------------------------------------
(* Which handler a dispatch invokes, checked under SpecCmd *)

\* The adapters a platform's handler may call.
AdaptersOf(p) ==
    CASE p = "asana"  -> {"asana"}
      [] p = "github" -> {"github"}
      [] p = "vscode" -> {"vscode"}
      [] p = "multi"  -> {"asana", "github"}

\* The adapter methods the two sync flows are made of.
SyncFlowOps ==
    {"get_task_by_gid", "create_issue", "add_comment_to_task", "get_issues",
     "create_task", "add_comment_to_issue"}

\* C25: the dispatch of an intent invokes one handler, chosen by the
\* intent's platform alone.  For asana, github, vscode and multi it is that
\* platform's handler whatever the action: every call after the
\* classification goes to that platform's adapter (for multi: to the
\* adapter methods of the sync flows), and the model is not asked for a
\* conversational answer.
C25_OneHandlerByPlatform ==
    (ObjectClassified /\ ReplyPlatform \in KnownPlatforms) =>
        /\ outcome.handler = ReplyPlatform
        /\ outcome.calls[1] = Classified
        /\ \A i \in 2..Len(outcome.calls) :
               /\ outcome.calls[i].adapter \in AdaptersOf(ReplyPlatform)
               /\ ReplyPlatform = "multi" =>
                      outcome.calls[i].op \in SyncFlowOps
        /\ ChatCalls = {}

\* A multi intent ran the sync of an issue to a task: the three calls of
\* the flow and no other.
C25_Witness ==
    /\ ObjectClassified
    /\ ReplyPlatform = "multi"
    /\ outcome.handler = "multi"
    /\ Len(outcome.calls) = 4
    /\ outcome.calls[4].op = "add_comment_to_issue"
    /\ outcome.calls[4].ok

----------------------------------------------------------------------------
(* A sync whose first step fails, checked under SpecSync *)

\* The last request ran sync_task_to_issue and its task was not fetched:
\* the task tracker's token was not resolved, or get_task_by_gid raised.
FetchFailed ==
    /\ FlowRan("sync_task_to_issue")
    /\ ParametersRaise(response.req) = "none"
    /\ \/ response.calls = <<>>
       \/ ~response.calls[1].ok

\* C26: when sync_task_to_issue cannot fetch its source task, the flow ends
\* with the soft error of its except clause, calls neither create_issue nor
\* add_comment_to_task, and leaves the records of both services as they
\* were.
C26_FailedFetchChangesNothing ==
    [][ FetchFailed' =>
            /\ DOMAIN response'.body = {"error"}
            /\ response'.body["error"][1] = "Multi-platform action failed: "
            /\ Len(response'.calls) <= 1
            /\ \A i \in 1..Len(response'.calls) :
                   response'.calls[i].op = "get_task_by_gid"
            /\ remote' = remote
      ]_vars

\* The task tracker refused the fetch of task T1 after an earlier request
\* had synced it: the one issue is still the only record.
C26_Witness ==
    /\ FetchFailed
    /\ Len(response.calls) = 1
    /\ response.calls[1].op = "get_task_by_gid"
    /\ response.calls[1].args.on = <<"T1">>
    /\ Len(remote.issues) = 1
    /\ Len(remote.task_comments) = 1

----------------------------------------------------------------------------
(* A command without the model's API key, checked under SpecCmd *)

\* The resolver has no value for openai-api-key: neither the vault nor the
\* environment nor the settings give one.
KeyUnresolved == ~Truthy(GetOpenaiApiKey(ResolverState, "ok").ret)

\* C27: when the resolver yields no API key for the language model,
\* process_command returns the failure envelope with the configuration
\* error of _ensure_openai_initialized; the command makes no completion
\* call and no adapter call, and the model client stays uninitialized.
C27_NoKeyNoCalls ==
    (outcome.kind # "none" /\ KeyUnresolved) =>
        /\ outcome.kind = "returned"
        /\ outcome.envelope =
               FailureEnvelope(<<"OpenAI API key not found in Key Vault or environment variables">>)
        /\ outcome.calls = <<>>
        /\ outcome.handler = "none"
        /\ ~openai_initialized

\* The vault is configured but its client could not be constructed and the
\* environment has no key: a command whose reply would have created an
\* issue returned the failure envelope.
C27_Witness ==
    /\ outcome.kind = "returned"
    /\ KeyUnresolved
    /\ use_key_vault
    /\ ~outcome.envelope.success
    /\ ReplyValue(outcome.inp.text, "action") = "create_issue"

----------------------------------------------------------------------------
(* The status of a refused sync request, checked under SpecSync *)

\* C28: a POST /sync request whose pair is not supported is answered with
\* status 400, by the API and by the function app alike.
C28_UnsupportedPairIs400 ==
    Unsupported => response.status = 400

----------------------------------------------------------------------------
(* The cache against the vault after concurrent calls, checked under
   SpecRace *)

\* No call of the resolver is outstanding: every caller has not called yet
\* or has returned.
Quiescent ==
    \A t \in Callers : pending[t].at \in {"idle", "done"}

\* C29: once the concurrent get(name) and set(name, v) calls have all
\* returned, a cached entry for the name equals the value the vault holds
\* for it.
C29_CacheNotStalerThanVault ==
    (Quiescent /\ RaceName \in DOMAIN secrets_cache) =>
        secrets_cache[RaceName] = DictGet(vault, RaceName)

----------------------------------------------------------------------------
(* Commands across a vault outage *)

\* The replies of the commands: one action of each adapter, the sync that
\* uses both, an editor action.
RetryReplies ==
    { ObjectReply(pa[1], pa[2], "object", "0.9") :
        pa \in {<<"asana", "create_task">>, <<"github", "create_issue">>,
                <<"multi", "sync_task_to_issue">>,
                <<"vscode", "open_project">>} }

RetryInputs == { c \in CommandInputs : c.llmok => c.text \in RetryReplies }

\* A fresh process whose credentials are only in the vault.
InitRetry ==
    /\ use_key_vault = TRUE
    /\ azure_key_vault_url = "url"
    /\ environ = EnvOver({})
    /\ vault = [n \in {OpenaiApiKey, AsanaAccessToken, GithubToken} |-> "v1"]
    /\ vaultUp = TRUE
    /\ key_vault_secret_prefix = NoPrefix
    /\ settings_initialized = FALSE
    /\ key_vault_client = None
    /\ client = None
    /\ secrets_cache = EmptyMap
    /\ last = NoOp
    /\ assistantIdle

\* Commands follow one another; between them the vault may stop answering
\* and answer again.
NextRetry ==
    \/ \E c \in RetryInputs, sdk \in SdkChoices : ProcessCommand(c, sdk)
    \/ VaultOutage
    \/ VaultRecovery

SpecRetry == InitRetry /\ [][NextRetry]_vars

\* What the resolver gives for a credential from the state a command left:
\* what the command's own resolution gave, the vault not having changed.
ResolvedAfter(name, variable) ==
    Resolve([inited |-> settings_initialized', kvc |-> key_vault_client',
             cl |-> client', cache |-> secrets_cache'],
            name, variable, "ok").ret

\* The command that left outcome o asked adapter for a remote call first
\* thing in its handler.
Addresses(o, adapter) ==
    \/ o.handler = adapter
    \/ o.handler = "multi" /\ adapter = "asana"

CallsOf(o, adapter) ==
    { i \in 1..Len(o.calls) : o.calls[i].adapter = adapter }

\* C30: a failed first use does not poison a client.  A command that finds
\* the model client, or the adapter it addresses, not initialized resolves
\* the credential: if that yields nothing, the command fails without a
\* remote call of that client, the flag stays false and no client is
\* stored; if it yields a value, whatever happened to earlier commands,
\* the client is built with it and the flag is set.
C30_FailedFirstUseDoesNotPoison ==
    [][ vaultUp' = vaultUp =>
          /\ ~openai_initialized =>
                 IF Truthy(ResolvedAfter(OpenaiApiKey, OPENAI_API_KEY))
                 THEN openai_initialized'
                 ELSE /\ ~openai_initialized'
                      /\ outcome'.calls = <<>>
                      /\ ~outcome'.envelope.success
          /\ \A adapter \in {"asana", "github"} :
                 (~AdapterInitialized(adapter) /\ Addresses(outcome', adapter))
                     =>
                     IF Truthy(ResolvedAfter(TokenName(adapter),
                                             TokenVariable(adapter)))
                     THEN /\ AdapterInitialized(adapter)'
                          /\ adapter_client'[adapter] =
                                 BuiltClient(
                                     ResolvedAfter(TokenName(adapter),
                                                   TokenVariable(adapter)),
                                     "call")
                          /\ CallsOf(outcome', adapter) # {}
                     ELSE /\ ~AdapterInitialized(adapter)'
                          /\ adapter_client'[adapter] = NoClient
                          /\ CallsOf(outcome', adapter) = {}
      ]_vars

\* What process_command would leave if the command whose reply is text
\* ran now and every remote call succeeded.
Retried(text) ==
    ProcessCommandOutcome(
        [openai |-> openai_initialized, asana |-> asana_initialized,
         github |-> github_initialized, clients |-> adapter_client,
         R |-> ResolverState],
        [text |-> text, llmok |-> TRUE, fail |-> NoFail, open |-> <<>>,
         params |-> ReplyParams, fresh |-> FreshNumber, sdk |-> "ok"])

\* The vault answers again after an outage during which a command that
\* would have created an issue failed on the code host's first use: no
\* call of the code host was made, the adapter is not initialized and holds
\* no client, the token is not cached; and the same command now
\* initializes the adapter and makes its call.
C30_Witness ==
    /\ vaultUp
    /\ openai_initialized
    /\ outcome.kind = "returned"
    /\ outcome.handler = "github"
    /\ CallsOf(outcome, "github") = {}
    /\ "error" \in DOMAIN outcome.envelope.result
    /\ ~github_initialized
    /\ adapter_client["github"] = NoClient
    /\ GithubToken \notin DOMAIN secrets_cache
    /\ \E o \in {Retried(ObjectReply("github", "create_issue", "object",
                                     "0.9"))} :
           /\ o.a.github
           /\ o.a.clients["github"] = BuiltClient("v1", "call")
           /\ CallsOf(o.outcome, "github") # {}

====
